---- MODULE Spec2Model ----
(***************************************************************************)
(* A model of the spreadsheet engine: the Sheet class (sheet.py), the      *)
(* ExpressionParser (expression_parser.py), the operator catalog           *)
(* (math_operator.py) and the Node tree (node.py).                         *)
(*                                                                         *)
(* Python strings are TLA+ strings; a character is a string of length 1.   *)
(* A Python float is the record [t |-> "float", n, d] holding the reduced  *)
(* fraction n/d (d > 0); d = 0 stands for the floats that are no fraction  *)
(* (n = 0 nan, n = 1 inf, n = -1 -inf).  A Python str is [t |-> "str", s]. *)
(* None is [t |-> "none"].  A result that may raise is a record with the   *)
(* field exc: "" when nothing was raised, else the exception class.        *)
(***************************************************************************)
EXTENDS Integers, Sequences, FiniteSets, TLC

VARIABLES cells, cells_values, dependencies_graph, ret, trace, tracing

vars == <<cells, cells_values, dependencies_graph, ret, trace, tracing>>

None == [t |-> "none"]

\* A local variable of the source: the value v, computed once, handed to
\* what follows.
With(v, F(_)) == F(v)

\* A call that may raise: the exception r if it raised, else what follows.
Then(r, F(_)) == IF r.exc # "" THEN r ELSE F(r)

-----------------------------------------------------------------------------
(* Characters and numbers                                                  *)

UpperLetters == "ABCDEFGHIJKLMNOPQRSTUVWXYZ"
LowerLetters == "abcdefghijklmnopqrstuvwxyz"
DigitChars == "0123456789"

Chr(s, i) == SubSeq(s, i, i)

CharSet(s) == {Chr(s, i) : i \in 1..Len(s)}

IndexIn(s, c) == CHOOSE i \in 1..Len(s) : Chr(s, i) = c

UpperSet == CharSet(UpperLetters)
DigitSet == CharSet(DigitChars)

IsUpper(c) == c \in UpperSet

IsDigit(c) == c \in DigitSet

IsSpaceChar(c) == c = " "

DigitVal(c) == IndexIn(DigitChars, c) - 1

AllChars(s, P(_)) == \A i \in 1..Len(s) : P(Chr(s, i))

Lower(c) == IF IsUpper(c) THEN Chr(LowerLetters, IndexIn(UpperLetters, c)) ELSE c

RECURSIVE LowerStr(_)
LowerStr(s) == IF s = "" THEN "" ELSE Lower(Chr(s, 1)) \o LowerStr(Tail(s))

Abs(x) == IF x < 0 THEN -x ELSE x

RECURSIVE GCD(_, _)
GCD(a, b) == IF b = 0 THEN a ELSE GCD(b, a % b)

RECURSIVE Pow(_, _)
Pow(b, e) == IF e = 0 THEN 1 ELSE b * Pow(b, e - 1)

\* The float n/d, reduced, with a positive denominator.
Float(n, d) ==
    LET g == GCD(Abs(n), Abs(d))
        s == IF d < 0 THEN -1 ELSE 1
    IN  [t |-> "float", n |-> s * (n \div g), d |-> s * (d \div g)]

NaN == [t |-> "float", n |-> 0, d |-> 0]
Inf(sign) == [t |-> "float", n |-> sign, d |-> 0]
\* A float that is no fraction of small integers (sin of a non-zero number, a
\* fractional power); arithmetic on it is not followed further.
Irrational == [t |-> "float", n |-> 2, d |-> 0]

Str(s) == [t |-> "str", s |-> s]

IsFloat(v) == v.t = "float"
IsStr(v) == v.t = "str"
IsFinite(v) == v.t = "float" /\ v.d # 0

\* int(digits) for a string of decimal digits.
RECURSIVE DigitsToInt(_)
DigitsToInt(s) ==
    IF s = "" THEN 0
    ELSE 10 * DigitsToInt(SubSeq(s, 1, Len(s) - 1)) + DigitVal(Chr(s, Len(s)))

\* str(i) for an integer.
RECURSIVE NatToStr(_)
NatToStr(i) ==
    IF i < 10 THEN Chr(DigitChars, i + 1)
    ELSE NatToStr(i \div 10) \o Chr(DigitChars, (i % 10) + 1)

IntToStr(i) == IF i < 0 THEN "-" \o NatToStr(-i) ELSE NatToStr(i)

RECURSIVE LStrip(_)
LStrip(s) == IF s # "" /\ IsSpaceChar(Chr(s, 1)) THEN LStrip(Tail(s)) ELSE s

RECURSIVE RStrip(_)
RStrip(s) ==
    IF s # "" /\ IsSpaceChar(Chr(s, Len(s))) THEN RStrip(SubSeq(s, 1, Len(s) - 1)) ELSE s

\* str.strip()
Strip(s) == RStrip(LStrip(s))

\* str.isspace()
IsSpace(s) == s # "" /\ AllChars(s, IsSpaceChar)

IsDigits(s) == s # "" /\ AllChars(s, IsDigit)

\* The digits and at most one point of a decimal literal: "12", "1.5", ".5", "5."
IsMantissa(s) ==
    /\ AllChars(s, LAMBDA c : IsDigit(c) \/ c = ".")
    /\ Cardinality({i \in 1..Len(s) : Chr(s, i) = "."}) <= 1
    /\ \E i \in 1..Len(s) : IsDigit(Chr(s, i))

UnsignedPart(s) == IF s # "" /\ Chr(s, 1) \in {"+", "-"} THEN Tail(s) ELSE s

SignOf(s) == IF s # "" /\ Chr(s, 1) = "-" THEN -1 ELSE 1

\* The exponent of a decimal literal: e or E, an optional sign, digits.
IsExponent(s) ==
    /\ s # ""
    /\ Chr(s, 1) \in {"e", "E"}
    /\ IsDigits(UnsignedPart(Tail(s)))

\* Where the exponent of the unsigned decimal literal s starts (Len(s)+1 if none).
ExponentStart(s) ==
    IF \E i \in 1..Len(s) : Chr(s, i) \in {"e", "E"}
    THEN CHOOSE i \in 1..Len(s) : Chr(s, i) \in {"e", "E"} /\ \A j \in 1..(i - 1) : Chr(s, j) \notin {"e", "E"}
    ELSE Len(s) + 1

IsDecimal(s) ==
    LET k == ExponentStart(s)
    IN  /\ IsMantissa(SubSeq(s, 1, k - 1))
        /\ k <= Len(s) => IsExponent(SubSeq(s, k, Len(s)))

IsSpecialFloat(s) == LowerStr(s) \in {"inf", "infinity", "nan"}

\* Whether float(s) returns (TRUE) or raises ValueError (FALSE).
FloatParses(s) ==
    LET u == UnsignedPart(Strip(s))
    IN  u # "" /\ (IsDecimal(u) \/ IsSpecialFloat(u))

RemovePoint(s) == LET P == {i \in 1..Len(s) : Chr(s, i) = "."}
                  IN  IF P = {} THEN s
                      ELSE LET i == CHOOSE j \in P : TRUE
                           IN  SubSeq(s, 1, i - 1) \o SubSeq(s, i + 1, Len(s))

FractionDigits(s) == LET P == {i \in 1..Len(s) : Chr(s, i) = "."}
                     IN  IF P = {} THEN 0 ELSE Len(s) - (CHOOSE j \in P : TRUE)

\* float(s), for s with FloatParses(s).
FloatOf(s) ==
    LET t == Strip(s)
        sign == SignOf(t)
        u == UnsignedPart(t)
    IN  IF IsSpecialFloat(u)
        THEN IF LowerStr(u) = "nan" THEN NaN ELSE Inf(sign)
        ELSE LET k == ExponentStart(u)
                 m == SubSeq(u, 1, k - 1)
                 e == IF k <= Len(u) THEN SubSeq(u, k + 1, Len(u)) ELSE ""
                 ev == IF e = "" THEN 0 ELSE SignOf(e) * DigitsToInt(UnsignedPart(e))
                 scale == ev - FractionDigits(m)
                 digits == DigitsToInt(RemovePoint(m))
             IN  IF scale >= 0 THEN Float(sign * digits * Pow(10, scale), 1)
                 ELSE Float(sign * digits, Pow(10, -scale))

-----------------------------------------------------------------------------
(* math_operator.py: the operator catalog                                  *)

MathOperator(symbol, cls, precedence, associativity) ==
    [t |-> "op", symbol |-> symbol, cls |-> cls, precedence |-> precedence,
     associativity |-> associativity]

UnaryOperator(symbol, precedence) == MathOperator(symbol, "Unary", precedence, "RTL")

BinaryOperator(symbol, precedence, associativity) ==
    MathOperator(symbol, "Binary", precedence, associativity)

RangeOperator(symbol) == MathOperator(symbol, "Range", 3, "RTL")

Plus == BinaryOperator("+", 1, "LTR")
Minus == BinaryOperator("-", 1, "LTR")
Times == BinaryOperator("*", 2, "LTR")
Divide == BinaryOperator("/", 2, "LTR")
Power == BinaryOperator("^", 4, "RTL")
Negate == UnaryOperator("-", 3)
Sin == UnaryOperator("sin", 3)
Max == RangeOperator("max")
Min == RangeOperator("min")
Sum == RangeOperator("sum")
Average == RangeOperator("average")

\* The list handed to ExpressionParser by Sheet.__init__.
math_operators == <<Plus, Minus, Times, Divide, Negate, Sin, Power, Max, Min, Sum, Average>>

IsMathOperator(x) == x.t = "op"

-----------------------------------------------------------------------------
(* node.py                                                                 *)

Node(value, left, right) == [t |-> "node", value |-> value, left |-> left, right |-> right]

IsNode(x) == x.t = "node"

is_leaf(node) == node.left = None /\ node.right = None

RECURSIVE preorder(_)
preorder(node) ==
    <<node>> \o (IF node.left # None THEN preorder(node.left) ELSE << >>)
             \o (IF node.right # None THEN preorder(node.right) ELSE << >>)

-----------------------------------------------------------------------------
(* The two regular expressions of Sheet                                    *)

\* ^[A-Z]+[0-9]+$ ; the split point is the length of the column group.
CellSplit(s) == {k \in 1..(Len(s) - 1) :
                    /\ AllChars(SubSeq(s, 1, k), IsUpper)
                    /\ AllChars(SubSeq(s, k + 1, Len(s)), IsDigit)}

CELL_PATTERN(s) == CellSplit(s) # {}

ColumnGroup(s) == SubSeq(s, 1, CHOOSE k \in CellSplit(s) : TRUE)
RowGroup(s) == SubSeq(s, (CHOOSE k \in CellSplit(s) : TRUE) + 1, Len(s))

\* ^[A-Z]+[0-9]+:[A-Z]+[0-9]+$ ; the split point is the place of the colon.
RangeSplit(s) == {i \in 1..Len(s) :
                    /\ Chr(s, i) = ":"
                    /\ CELL_PATTERN(SubSeq(s, 1, i - 1))
                    /\ CELL_PATTERN(SubSeq(s, i + 1, Len(s)))}

RANGE_NAME_PATTERN(s) == RangeSplit(s) # {}

RangeStart(s) == SubSeq(s, 1, (CHOOSE i \in RangeSplit(s) : TRUE) - 1)
RangeEnd(s) == SubSeq(s, (CHOOSE i \in RangeSplit(s) : TRUE) + 1, Len(s))

-----------------------------------------------------------------------------
(* expression_parser.py                                                    *)

ParserException == [exc |-> "ParserException"]

is_operator(token) == \E i \in DOMAIN math_operators : math_operators[i].symbol = token

is_location(string) == CELL_PATTERN(string)

is_range_token(string) == RANGE_NAME_PATTERN(string)

is_number(var) ==
    IF Len(Strip(var)) # Len(var) \/ (var # "" /\ Chr(var, 1) \in {"+", "-"})
    THEN FALSE
    ELSE FloatParses(var)

is_operand(string) == is_number(string) \/ is_location(string) \/ is_range_token(string)

is_open_bracket(char) == char = "(" \/ char = "[" \/ char = "{"

is_close_bracket(char) == char = ")" \/ char = "]" \/ char = "}"

is_bracket(char) == is_close_bracket(char) \/ is_open_bracket(char)

is_valid_token(token) ==
    is_bracket(token) \/ IsSpace(token) \/ is_operand(token) \/ is_operator(token)

SetMax(S) == CHOOSE x \in S : \A y \in S : y <= x
SetMin(S) == CHOOSE x \in S : \A y \in S : x <= y

\* The longest valid token that starts at start_index (1-based), "" if none.
find_next_matching_token(expression, start_index) ==
    With({n \in 1..(Len(expression) - start_index + 1) :
             is_valid_token(SubSeq(expression, start_index, start_index + n - 1))},
         LAMBDA L : IF L = {} THEN ""
                    ELSE SubSeq(expression, start_index, start_index + SetMax(L) - 1))

RECURSIVE tokenize_from(_, _, _)
tokenize_from(expression, index, tokens) ==
    IF index > Len(expression) THEN [exc |-> "", tokens |-> tokens]
    ELSE With(find_next_matching_token(expression, index),
              LAMBDA token : IF token = "" THEN ParserException
                             ELSE tokenize_from(expression, index + Len(token),
                                                Append(tokens, token)))

tokenize(expression) == tokenize_from(expression, 1, << >>)

\* __are_parentheses_pairs taking any closing bracket for the match of any
\* open bracket.
are_parentheses_pairs_of_any_kind(open_bracket, close_bracket) ==
    /\ open_bracket \in {"{", "(", "["}
    /\ close_bracket \in {"}", ")", "]"}

are_parentheses_pairs(open_bracket, close_bracket) ==
    \/ open_bracket = "{" /\ close_bracket = "}"
    \/ open_bracket = "(" /\ close_bracket = ")"
    \/ open_bracket = "[" /\ close_bracket = "]"

\* __does_have_higher_precedence asking for a strictly lower precedence of a
\* left-to-right operator too.
does_have_higher_precedence_strict(operator1, operator2) ==
    \/ operator2.associativity = "LTR" /\ operator2.precedence < operator1.precedence
    \/ operator2.associativity = "RTL" /\ operator2.precedence < operator1.precedence

does_have_higher_precedence(operator1, operator2) ==
    \/ operator2.associativity = "LTR" /\ operator2.precedence <= operator1.precedence
    \/ operator2.associativity = "RTL" /\ operator2.precedence < operator1.precedence

\* An open bracket waiting on the operator stack.
Bracket(s) == [t |-> "bracket", s |-> s]

FirstOperator(token, cls) ==
    LET I == {i \in DOMAIN math_operators :
                 math_operators[i].symbol = token /\ math_operators[i].cls = cls}
    IN  IF I = {} THEN None ELSE math_operators[SetMin(I)]

\* __find_operator taking the unary operator of a symbol wherever it has one.
find_operator_unary_first(token, is_previous_character_operand) ==
    LET range_op == FirstOperator(token, "Range")
        binary_op == FirstOperator(token, "Binary")
        unary_op == FirstOperator(token, "Unary")
    IN  IF range_op # None THEN range_op
        ELSE IF unary_op # None THEN unary_op
        ELSE IF is_previous_character_operand THEN binary_op
        ELSE None

find_operator(token, is_previous_character_operand) ==
    LET range_op == FirstOperator(token, "Range")
        binary_op == FirstOperator(token, "Binary")
        unary_op == FirstOperator(token, "Unary")
    IN  IF range_op # None THEN range_op
        ELSE IF is_previous_character_operand /\ binary_op # None THEN binary_op
        ELSE unary_op

\* The while loop of __handle_operator, then the push.
RECURSIVE handle_operator(_, _, _)
handle_operator(operator, operators_stack, tokens_postfix) ==
    IF /\ Len(operators_stack) > 0
       /\ IsMathOperator(operators_stack[Len(operators_stack)])
       /\ does_have_higher_precedence(operators_stack[Len(operators_stack)], operator)
    THEN handle_operator(operator,
                         SubSeq(operators_stack, 1, Len(operators_stack) - 1),
                         Append(tokens_postfix, operators_stack[Len(operators_stack)]))
    ELSE [exc |-> "", stack |-> Append(operators_stack, operator), postfix |-> tokens_postfix]

\* The while loop of __handle_close_bracket: the operators above the last open bracket.
RECURSIVE PopToOpenBracket(_, _)
PopToOpenBracket(operators_stack, popped) ==
    IF Len(operators_stack) > 0 /\ operators_stack[Len(operators_stack)].t # "bracket"
    THEN PopToOpenBracket(SubSeq(operators_stack, 1, Len(operators_stack) - 1),
                          Append(popped, operators_stack[Len(operators_stack)]))
    ELSE [stack |-> operators_stack, popped |-> popped]

handle_close_bracket(close_bracket, operators_stack, tokens_postfix) ==
    LET r == PopToOpenBracket(operators_stack, << >>)
    IN  IF Len(r.stack) = 0 THEN ParserException
        ELSE IF ~are_parentheses_pairs(r.stack[Len(r.stack)].s, close_bracket)
        THEN ParserException
        ELSE [exc |-> "", stack |-> SubSeq(r.stack, 1, Len(r.stack) - 1),
              postfix |-> tokens_postfix \o r.popped]

\* __handle_range_func taking the three tokens after the operator for a call
\* whatever they are.
handle_range_func_of_any_shape(operator, token_index, tokens, tokens_postfix) ==
    IF token_index - 1 > Len(tokens) - 4 THEN ParserException
    ELSE [exc |-> "", postfix |-> tokens_postfix \o <<Str(tokens[token_index + 2]), operator>>]

\* token_index is 1-based: the source's test token_index > len(tokens) - 4 on a
\* 0-based index is token_index - 1 > Len(tokens) - 4 here.
handle_range_func(operator, token_index, tokens, tokens_postfix) ==
    IF token_index - 1 > Len(tokens) - 4 THEN ParserException
    ELSE LET open_bracket == tokens[token_index + 1]
             range_token == tokens[token_index + 2]
             close_bracket == tokens[token_index + 3]
         IN  IF /\ is_open_bracket(open_bracket)
                /\ is_close_bracket(close_bracket)
                /\ are_parentheses_pairs(open_bracket, close_bracket)
                /\ is_range_token(range_token)
             THEN [exc |-> "", postfix |-> tokens_postfix \o <<Str(range_token), operator>>]
             ELSE ParserException

PostfixState(is_operand_, is_open, index, stack, postfix) ==
    [exc |-> "", is_prev_operand |-> is_operand_, is_prev_open_bracket |-> is_open,
     token_index |-> index, stack |-> stack, postfix |-> postfix]

process_token_postfix(token_index, tokens, operators_stack, tokens_postfix, is_previous_token_operand, is_previous_token_open_bracket) ==
    LET token == tokens[token_index]
    IN  IF is_open_bracket(token) THEN
            IF is_previous_token_operand THEN ParserException
            ELSE PostfixState(FALSE, TRUE, token_index + 1,
                              Append(operators_stack, Bracket(token)), tokens_postfix)
        ELSE IF is_close_bracket(token) THEN
            IF is_previous_token_open_bracket THEN ParserException
            ELSE Then(handle_close_bracket(token, operators_stack, tokens_postfix),
                      LAMBDA r : PostfixState(TRUE, FALSE, token_index + 1, r.stack, r.postfix))
        ELSE IF is_operator(token) THEN
            With(find_operator(token, is_previous_token_operand), LAMBDA operator :
                IF operator = None THEN ParserException
                ELSE IF operator.cls = "Range" THEN
                    Then(handle_range_func(operator, token_index, tokens, tokens_postfix),
                         LAMBDA r : PostfixState(TRUE, FALSE, token_index + 4, operators_stack,
                                                 r.postfix))
                ELSE
                    With(handle_operator(operator, operators_stack, tokens_postfix),
                         LAMBDA r : PostfixState(FALSE, FALSE, token_index + 1, r.stack,
                                                 r.postfix)))
        ELSE IF is_number(token) THEN
            IF is_previous_token_operand THEN ParserException
            ELSE PostfixState(TRUE, FALSE, token_index + 1, operators_stack,
                              Append(tokens_postfix, FloatOf(token)))
        ELSE IF is_location(token) THEN
            IF is_previous_token_operand THEN ParserException
            ELSE PostfixState(TRUE, FALSE, token_index + 1, operators_stack,
                              Append(tokens_postfix, Str(token)))
        ELSE ParserException

\* The scanning loop of __postfix.
RECURSIVE PostfixScan(_, _)
PostfixScan(filtered_tokens, st) ==
    IF st.exc # "" THEN st
    ELSE IF st.token_index > Len(filtered_tokens) THEN st
    ELSE PostfixScan(filtered_tokens,
                     process_token_postfix(st.token_index, filtered_tokens, st.stack, st.postfix,
                                           st.is_prev_operand, st.is_prev_open_bracket))

\* The draining loop of __postfix.
RECURSIVE PostfixDrain(_, _)
PostfixDrain(operators_stack, tokens_postfix) ==
    IF Len(operators_stack) = 0 THEN [exc |-> "", postfix |-> tokens_postfix]
    ELSE LET operator == operators_stack[Len(operators_stack)]
         IN  IF operator.t = "bracket" THEN ParserException
             ELSE PostfixDrain(SubSeq(operators_stack, 1, Len(operators_stack) - 1),
                               Append(tokens_postfix, operator))

postfix(tokens) ==
    IF Len(tokens) = 0 THEN ParserException
    ELSE Then(PostfixScan(SelectSeq(tokens, LAMBDA token : ~IsSpace(token)),
                          PostfixState(FALSE, FALSE, 1, << >>, << >>)),
              LAMBDA st : Then(PostfixDrain(st.stack, st.postfix),
                               LAMBDA d : IF ~st.is_prev_operand THEN ParserException ELSE d))

\* The loop of syntax_tree over the postfix tokens; stack is the node stack.
RECURSIVE BuildTree(_, _, _)
BuildTree(tokens_postfix, i, stack) ==
    IF i > Len(tokens_postfix) THEN [exc |-> "", stack |-> stack]
    ELSE LET token == tokens_postfix[i]
             n == Len(stack)
         IN  IF IsMathOperator(token) /\ token.cls \in {"Unary", "Range"} THEN
                 IF n < 1 THEN ParserException
                 ELSE BuildTree(tokens_postfix, i + 1,
                                Append(SubSeq(stack, 1, n - 1), Node(token, None, stack[n])))
             ELSE IF IsMathOperator(token) /\ token.cls = "Binary" THEN
                 IF n < 2 THEN ParserException
                 ELSE BuildTree(tokens_postfix, i + 1,
                                Append(SubSeq(stack, 1, n - 2), Node(token, stack[n - 1], stack[n])))
             ELSE BuildTree(tokens_postfix, i + 1, Append(stack, Node(token, None, None)))

\* Returns [exc |-> "", tree, dropped]; dropped is the number of nodes left on
\* the stack under the returned root.
syntax_tree(expression) ==
    Then(tokenize(expression), LAMBDA tk :
    Then(postfix(tk.tokens), LAMBDA pf :
        IF Len(pf.postfix) = 0 THEN ParserException
        ELSE Then(BuildTree(pf.postfix, 1, << >>), LAMBDA b :
                 [exc |-> "", tree |-> b.stack[Len(b.stack)], dropped |-> Len(b.stack) - 1])))

-----------------------------------------------------------------------------
(* math_operator.py: calculate                                             *)

Raise(e) == [exc |-> e]
Return(v) == [exc |-> "", value |-> v]

FAdd(a, b) == Float(a.n * b.d + b.n * a.d, a.d * b.d)
FSub(a, b) == Float(a.n * b.d - b.n * a.d, a.d * b.d)
FMul(a, b) == Float(a.n * b.n, a.d * b.d)
FDiv(a, b) == Float(a.n * b.d, a.d * b.n)
FLess(a, b) == a.n * b.d < b.n * a.d
FZero == Float(0, 1)

NotFraction(a, b) == IF a = NaN \/ b = NaN THEN NaN ELSE Irrational

\* float (+, -, *, /) str and math.pow(float, str) raise TypeError.
Plus_calculate(left_operand, right_operand) ==
    IF ~IsFloat(left_operand) \/ ~IsFloat(right_operand) THEN Raise("TypeError")
    ELSE IF ~IsFinite(left_operand) \/ ~IsFinite(right_operand)
    THEN Return(NotFraction(left_operand, right_operand))
    ELSE Return(FAdd(left_operand, right_operand))

Minus_calculate(left_operand, right_operand) ==
    IF ~IsFloat(left_operand) \/ ~IsFloat(right_operand) THEN Raise("TypeError")
    ELSE IF ~IsFinite(left_operand) \/ ~IsFinite(right_operand)
    THEN Return(NotFraction(left_operand, right_operand))
    ELSE Return(FSub(left_operand, right_operand))

Times_calculate(left_operand, right_operand) ==
    IF ~IsFloat(left_operand) \/ ~IsFloat(right_operand) THEN Raise("TypeError")
    ELSE IF ~IsFinite(left_operand) \/ ~IsFinite(right_operand)
    THEN Return(NotFraction(left_operand, right_operand))
    ELSE Return(FMul(left_operand, right_operand))

\* Divide.calculate without the test for a zero divisor.
Divide_calculate_unchecked(left_operand, right_operand) ==
    IF ~IsFloat(left_operand) \/ ~IsFloat(right_operand) THEN Raise("TypeError")
    ELSE IF ~IsFinite(left_operand) \/ ~IsFinite(right_operand)
    THEN Return(NotFraction(left_operand, right_operand))
    ELSE Return(FDiv(left_operand, right_operand))

Divide_calculate(left_operand, right_operand) ==
    IF ~IsFloat(left_operand) \/ ~IsFloat(right_operand) THEN Raise("TypeError")
    ELSE IF right_operand = FZero THEN Raise("ZeroDivisionError")
    ELSE IF ~IsFinite(left_operand) \/ ~IsFinite(right_operand)
    THEN Return(NotFraction(left_operand, right_operand))
    ELSE Return(FDiv(left_operand, right_operand))

\* math.pow: ValueError for 0 to a negative power and for a negative base to a
\* fractional power.
Power_calculate(left_operand, right_operand) ==
    IF ~IsFloat(left_operand) \/ ~IsFloat(right_operand) THEN Raise("TypeError")
    ELSE IF ~IsFinite(left_operand) \/ ~IsFinite(right_operand)
    THEN Return(NotFraction(left_operand, right_operand))
    ELSE IF right_operand.d = 1 THEN
        IF right_operand.n >= 0
        THEN Return(Float(Pow(left_operand.n, right_operand.n), Pow(left_operand.d, right_operand.n)))
        ELSE IF left_operand.n = 0 THEN Raise("ValueError")
        ELSE Return(Float(Pow(left_operand.d, -right_operand.n), Pow(left_operand.n, -right_operand.n)))
    ELSE IF left_operand.n < 0 THEN Raise("ValueError")
    ELSE IF left_operand.n = 0 THEN Return(FZero)
    ELSE IF left_operand = Float(1, 1) THEN Return(left_operand)
    ELSE Return(Irrational)

Negate_calculate(operand) ==
    IF ~IsFloat(operand) THEN Raise("TypeError")
    ELSE IF ~IsFinite(operand)
    THEN Return(IF operand.n \in {1, -1} THEN Inf(-operand.n) ELSE operand)
    ELSE Return(Float(-operand.n, operand.d))

Sin_calculate(operand) ==
    IF ~IsFloat(operand) THEN Raise("TypeError")
    ELSE IF operand = FZero THEN Return(FZero)
    ELSE IF operand = NaN THEN Return(NaN)
    ELSE IF ~IsFinite(operand) /\ operand.n \in {1, -1} THEN Raise("ValueError")
    ELSE Return(Irrational)

RECURSIVE FoldSeq(_, _, _)
FoldSeq(Op(_, _), acc, seq) ==
    IF seq = << >> THEN acc ELSE FoldSeq(Op, Op(acc, Head(seq)), Tail(seq))

AllFinite(operands) == \A i \in DOMAIN operands : IsFinite(operands[i])

\* The range operators are only called with a non-empty list of floats.
Max_calculate(operands) ==
    IF ~AllFinite(operands) THEN Return(Irrational)
    ELSE Return(FoldSeq(LAMBDA a, b : IF FLess(a, b) THEN b ELSE a, Head(operands), Tail(operands)))

Min_calculate(operands) ==
    IF ~AllFinite(operands) THEN Return(Irrational)
    ELSE Return(FoldSeq(LAMBDA a, b : IF FLess(b, a) THEN b ELSE a, Head(operands), Tail(operands)))

Sum_calculate(operands) ==
    IF ~AllFinite(operands) THEN Return(Irrational)
    ELSE Return(FoldSeq(FAdd, FZero, operands))

Average_calculate(operands) ==
    IF ~AllFinite(operands) THEN Return(Irrational)
    ELSE Return(FDiv(FoldSeq(FAdd, FZero, operands), Float(Len(operands), 1)))

\* Dispatch of node.value.calculate on the operator the node holds.
calculate_unary(operator, operand) ==
    IF operator = Negate THEN Negate_calculate(operand) ELSE Sin_calculate(operand)

calculate_binary(operator, left_operand, right_operand) ==
    CASE operator = Plus -> Plus_calculate(left_operand, right_operand)
      [] operator = Minus -> Minus_calculate(left_operand, right_operand)
      [] operator = Times -> Times_calculate(left_operand, right_operand)
      [] operator = Divide -> Divide_calculate(left_operand, right_operand)
      [] OTHER -> Power_calculate(left_operand, right_operand)

calculate_range(operator, operands) ==
    CASE operator = Max -> Max_calculate(operands)
      [] operator = Min -> Min_calculate(operands)
      [] operator = Sum -> Sum_calculate(operands)
      [] OTHER -> Average_calculate(operands)

-----------------------------------------------------------------------------
(* sheet.py: coordinates                                                   *)

NUMBER_OF_LETTERS == 26
A_ASCII == 65
ROWS_NUM == 20
COLUMNS_NUM == 10

\* ord and chr on the capital letters.
Ord(char) == IndexIn(UpperLetters, char) - 1 + A_ASCII
ChrOf(code) == Chr(UpperLetters, code - A_ASCII + 1)

\* row_index_to_name labelling the rows from 0.
row_index_to_name_from_zero(row_index) == IntToStr(row_index)

row_index_to_name(row_index) == IntToStr(row_index + 1)

RECURSIVE column_index_to_name_loop(_, _)
column_index_to_name_loop(col_index, name) ==
    IF col_index >= 0
    THEN column_index_to_name_loop((col_index \div NUMBER_OF_LETTERS) - 1,
                                   name \o ChrOf((col_index % NUMBER_OF_LETTERS) + A_ASCII))
    ELSE name

column_index_to_name(col_index) == column_index_to_name_loop(col_index, "")

get_cell_name(col_index, row_index) ==
    column_index_to_name(col_index) \o row_index_to_name(row_index)

row_name_to_index(row_name) == DigitsToInt(row_name) - 1

\* sum of char_index * 26 + (ord(char) - 65) over the enumerated characters
\* (char_index counts from 0).
RECURSIVE column_name_to_index_sum(_, _)
column_name_to_index_sum(column_name, i) ==
    IF i > Len(column_name) THEN 0
    ELSE ((i - 1) * NUMBER_OF_LETTERS + (Ord(Chr(column_name, i)) - A_ASCII))
         + column_name_to_index_sum(column_name, i + 1)

column_name_to_index(column_name) == column_name_to_index_sum(column_name, 1)

position_in_sheet_range(position) ==
    /\ 0 <= position[1] /\ position[1] < ROWS_NUM
    /\ 0 <= position[2] /\ position[2] < COLUMNS_NUM

cell_name_to_location(cell_name) ==
    IF ~CELL_PATTERN(cell_name) THEN Raise("BadNameException")
    ELSE With(<<row_name_to_index(RowGroup(cell_name)),
                column_name_to_index(ColumnGroup(cell_name))>>,
              LAMBDA position : IF ~position_in_sheet_range(position)
                                THEN Raise("BadNameException")
                                ELSE Return(position))

\* __calculate_range_positions asking for a start strictly before the end.
calculate_range_positions_strict(range_value) ==
    IF ~RANGE_NAME_PATTERN(range_value) THEN Raise("BadNameException")
    ELSE With(RangeStart(range_value), LAMBDA first :
         With(RangeEnd(range_value), LAMBDA last :
         With(<<row_name_to_index(RowGroup(first)), column_name_to_index(ColumnGroup(first))>>,
              LAMBDA start_position :
         With(<<row_name_to_index(RowGroup(last)), column_name_to_index(ColumnGroup(last))>>,
              LAMBDA end_position :
             IF ~(position_in_sheet_range(start_position) /\ position_in_sheet_range(end_position))
             THEN Raise("BadNameException")
             ELSE IF start_position[1] = end_position[1] /\ start_position[2] < end_position[2]
             THEN Return({<<start_position[1], col>> : col \in start_position[2]..end_position[2]})
             ELSE IF start_position[2] = end_position[2] /\ start_position[1] < end_position[1]
             THEN Return({<<row, start_position[2]>> : row \in start_position[1]..end_position[1]})
             ELSE Raise("BadNameException")))))

calculate_range_positions(range_value) ==
    IF ~RANGE_NAME_PATTERN(range_value) THEN Raise("BadNameException")
    ELSE With(RangeStart(range_value), LAMBDA first :
         With(RangeEnd(range_value), LAMBDA last :
         With(<<row_name_to_index(RowGroup(first)), column_name_to_index(ColumnGroup(first))>>,
              LAMBDA start_position :
         With(<<row_name_to_index(RowGroup(last)), column_name_to_index(ColumnGroup(last))>>,
              LAMBDA end_position :
             IF ~(position_in_sheet_range(start_position) /\ position_in_sheet_range(end_position))
             THEN Raise("BadNameException")
             ELSE IF start_position[1] = end_position[1] /\ start_position[2] <= end_position[2]
             THEN Return({<<start_position[1], col>> : col \in start_position[2]..end_position[2]})
             ELSE IF start_position[2] = end_position[2] /\ start_position[1] <= end_position[1]
             THEN Return({<<row, start_position[2]>> : row \in start_position[1]..end_position[1]})
             ELSE Raise("BadNameException")))))

-----------------------------------------------------------------------------
(* networkx.DiGraph as Sheet uses it: a set of nodes and a set of edges    *)
(* <<u, v>>, u reads v.                                                    *)

DiGraph == [nodes |-> {}, edges |-> {}]

out_edges(G, n) == {e \in G.edges : e[1] = n}

remove_edges_from(G, ebunch) == [nodes |-> G.nodes, edges |-> G.edges \ ebunch]

\* add_edges_from adds the end points of the edges as nodes.
add_edges_from(G, ebunch) ==
    [nodes |-> G.nodes \cup {e[1] : e \in ebunch} \cup {e[2] : e \in ebunch},
     edges |-> G.edges \cup ebunch]

add_node(G, n) == [nodes |-> G.nodes \cup {n}, edges |-> G.edges]

reverse(G) == [nodes |-> G.nodes, edges |-> {<<e[2], e[1]>> : e \in G.edges}]

\* nx.isolates: the nodes with no edge in or out.
isolates(G) == {n \in G.nodes : \A e \in G.edges : e[1] # n /\ e[2] # n}

Reverse(seq) == [i \in 1..Len(seq) |-> seq[Len(seq) + 1 - i]]

\* The lists that hold each element of S once.
RECURSIVE NodeOrders(_)
NodeOrders(S) ==
    IF S = {} THEN {<< >>}
    ELSE UNION {{<<first>> \o rest : rest \in NodeOrders(S \ {first})} : first \in S}

\* nx.topological_sort returns one of the orders in which every edge <<u, v>>
\* has u before v; which one is not fixed by its contract.  The set is empty
\* exactly when the graph has a cycle (networkx raises NetworkXUnfeasible).
topological_sort(G) ==
    {o \in NodeOrders(G.nodes) :
        \A e \in G.edges : \E i, j \in 1..Len(o) : i < j /\ o[i] = e[1] /\ o[j] = e[2]}

\* nx.descendants: the nodes reachable from n, n excluded.
RECURSIVE ReachableFrom(_, _)
ReachableFrom(G, S) ==
    LET T == S \cup {e[2] : e \in {x \in G.edges : x[1] \in S}}
    IN  IF T = S THEN S ELSE ReachableFrom(G, T)

descendants(G, n) == ReachableFrom(G, {n}) \ {n}

-----------------------------------------------------------------------------
(* cell.py, as sheet.py builds and reads a cell                            *)

Cell(cell_content, parsed_content) ==
    [content |-> cell_content, parsed_content |-> parsed_content]

get_content(cell) == cell.content

get_parsed_content(cell) == cell.parsed_content

-----------------------------------------------------------------------------
(* sheet.py: the dictionaries                                              *)

EmptyDict == << >>

DictSet(d, k, v) == [x \in (DOMAIN d) \cup {k} |-> IF x = k THEN v ELSE d[x]]

DictUpdate(d, e) == [x \in (DOMAIN d) \cup (DOMAIN e) |-> IF x \in DOMAIN e THEN e[x] ELSE d[x]]

DictPop(d, k) == [x \in (DOMAIN d) \ {k} |-> d[x]]

-----------------------------------------------------------------------------
(* The contents the specifications write to the sheet                      *)

\* What the main specification writes: numbers, a text, the deletion, formulas
\* over the first three cells, a formula that does not parse and one that
\* names a cell outside the sheet.
Contents ==
    {"0", "2", "5", "", "abc", "=A1*3", "=B1+A1", "=1/A1", "=A1", "=sum(A1:B1)",
     "=A1+", "=A1+ZZ9999"}

\* What the deletion scenarios write.
DeletionContents == {"1", "=A1+1", ""}

\* What the cycle scenarios write.
CycleContents == {"=B1", "=C1", "=A1"}

\* What the bad-name scenarios write: numbers and formulas with names inside
\* and outside the sheet.
BadNameContents ==
    {"1", "5", "=A1+1", "=ZZ9999", "=A0+1", "=A1+ZZ9999", "=sum(A1:K1)",
     "=ZZ9999sum(A1:A1)", "=B1sum(A1:A1)"}

\* The json files a sheet is constructed from: pairs of cell name and content,
\* in the order of the file.
JsonFile(data) == [t |-> "file", data |-> data]

JsonFiles ==
    {JsonFile(<<<<"B1", "=A1*3">>, <<"A1", "2">>>>),
     JsonFile(<<<<"A1", "=B1">>, <<"B1", "=A1">>>>),
     JsonFile(<<<<"A1", "=B1">>>>),
     JsonFile(<<<<"A1", "=A1+">>>>),
     JsonFile(<<<<"K1", "2">>>>)}

\* What the reference scenarios write beside C1 = 1 and D1 = abc: formulas
\* that read the number, the text and the cell E1 that is never written.
ReferenceContents ==
    {"1", "=C1+1", "=E1+1", "=sum(D1:E1)", "=E1sum(C1:C1)",
     "=D1", "=D1+1", "=1+D1", "=-D1", "=sum(D1:D1)"}

\* The file of the reference scenarios.
ReferenceFile == JsonFile(<<<<"C1", "1">>, <<"D1", "abc">>>>)

\* What the range scenarios write beside A1 = 1, A2 = 2, A3 = 3 and A4 = 4:
\* calls of the range operators, a text, a number and the deletion.
RangeValueContents ==
    {"=sum(A1:A4)", "=average(A1:A4)", "=max(A1:A4)", "=min(A1:A4)", "=sum(A1:A5)",
     "=max(A2:A2)", "=average(A4:A5)", "abc", "7", ""}

RangeValueFile == JsonFile(<<<<"A1", "1">>, <<"A2", "2">>, <<"A3", "3">>, <<"A4", "4">>>>)

\* What the chain scenarios write beside A1 = 2, B1 = =A1*3 and
\* C1 = =B1+A1: numbers, formulas that read one or two of the cells and the
\* deletion.
ChainContents == {"2", "5", "=A1*3", "=B1+A1", "=A1", "=B1+C1", ""}

ChainFile == JsonFile(<<<<"A1", "2">>, <<"B1", "=A1*3">>, <<"C1", "=B1+A1">>>>)

\* What the dangling-reference scenarios write: a number, formulas that read
\* A1 and the cell C1 that is never written, by name and inside a range, and
\* the deletion.
DanglingContents == {"1", "=A1+1", "=C1+1", "=sum(A1:C1)", "=C1sum(A1:A1)", "=sum(A1:A1)", ""}

WrittenContents ==
    Contents \cup DeletionContents \cup CycleContents \cup BadNameContents
    \cup ReferenceContents \cup RangeValueContents \cup ChainContents \cup DanglingContents
    \cup UNION {{f.data[i][2] : i \in DOMAIN f.data} : f \in JsonFiles}

-----------------------------------------------------------------------------
(* sheet.py: parsing the content and extracting the dependencies           *)

EQUATION_PREFIX == "="

try_parse_number(value) == IF FloatParses(value) THEN FloatOf(value) ELSE None

startswith(s, prefix) == Len(s) >= Len(prefix) /\ SubSeq(s, 1, Len(prefix)) = prefix

parse_content_of(cell_content) ==
    With(try_parse_number(cell_content), LAMBDA number_result :
        IF number_result # None THEN Return(number_result)
        ELSE IF startswith(cell_content, EQUATION_PREFIX)
        THEN Then(syntax_tree(SubSeq(cell_content, 2, Len(cell_content))),
                  LAMBDA r : Return(r.tree))
        ELSE Return(Str(cell_content)))

\* parse_content on the contents the specifications write is computed once
\* and looked up afterwards.
ParsedContents == [cell_content \in WrittenContents |-> parse_content_of(cell_content)]

parse_content(cell_content) ==
    IF cell_content \in WrittenContents THEN ParsedContents[cell_content]
    ELSE parse_content_of(cell_content)

get_string_nodes(node) ==
    LET nodes == SelectSeq(preorder(node), LAMBDA n : IsStr(n.value))
    IN  [i \in 1..Len(nodes) |-> nodes[i].value.s]

RECURSIVE get_dependencies_loop(_, _, _)
get_dependencies_loop(tokens, i, dependencies) ==
    IF i > Len(tokens) THEN Return(dependencies)
    ELSE IF CELL_PATTERN(tokens[i])
    THEN Then(cell_name_to_location(tokens[i]),
              LAMBDA r : get_dependencies_loop(tokens, i + 1, dependencies \cup {r.value}))
    ELSE IF RANGE_NAME_PATTERN(tokens[i])
    THEN Then(calculate_range_positions(tokens[i]),
              LAMBDA r : get_dependencies_loop(tokens, i + 1, dependencies \cup r.value))
    ELSE get_dependencies_loop(tokens, i + 1, dependencies)

get_dependencies(node) == get_dependencies_loop(get_string_nodes(node), 1, {})

-----------------------------------------------------------------------------
(* sheet.py: the tentative graph and the order of re-evaluation            *)

\* remove_edges_from(isolated_items): networkx unpacks every item of the list
\* as an edge; an isolated item is a position (row, col), so it names the edge
\* from the integer row to the integer col.  The nodes of the graph are
\* positions, never integers: the items name no edge of the graph
\* (named_edges), whatever isolated_items holds, and the nodes stay.
remove_isolates(dependency_graph) ==
    LET isolated_items == isolates(dependency_graph)
        named_edges == {}
    IN  remove_edges_from(dependency_graph, named_edges)

\* self.__dependencies_graph.copy()
copy(G) == G

\* __get_updated_graph editing self.__dependencies_graph itself, not a copy.
get_updated_graph_in_place(graph, position, position_dependencies) ==
    With(remove_isolates(add_edges_from(remove_edges_from(graph, out_edges(graph, position)),
                                        {<<position, d>> : d \in position_dependencies})),
         LAMBDA edited : [self_graph |-> edited, new_dependency_graph |-> edited])

\* The edits go to a copy: self_graph is what self.__dependencies_graph holds
\* when the method returns, new_dependency_graph is the graph it returns.
get_updated_graph(graph, position, position_dependencies) ==
    With({<<position, d>> : d \in position_dependencies}, LAMBDA updated_edges :
    With(copy(graph), LAMBDA new_dependency_graph :
    With(remove_edges_from(new_dependency_graph, out_edges(new_dependency_graph, position)),
         LAMBDA removed :
        [self_graph |-> graph,
         new_dependency_graph |-> remove_isolates(add_edges_from(removed, updated_edges))])))

\* __compute_dependencies without the test for a cycle.
compute_dependencies_no_cycle_check(current_position, dependency_graph) ==
    With(topological_sort(dependency_graph), LAMBDA orders :
        IF orders = {} \/ current_position \notin dependency_graph.nodes THEN Return({<< >>})
        ELSE With(descendants(reverse(dependency_graph), current_position), LAMBDA dependents :
                 Return({SelectSeq(Reverse(total_order),
                                   LAMBDA position : position \in dependents) :
                            total_order \in orders})))

\* __compute_dependencies finding no dependents.
compute_dependencies_no_dependents(current_position, dependency_graph) ==
    IF topological_sort(dependency_graph) = {} THEN Raise("CircularDependenciesException")
    ELSE Return({<< >>})

\* __compute_dependencies listing the dependents in the topological order,
\* not reversed.
compute_dependencies_in_total_order(current_position, dependency_graph) ==
    With(topological_sort(dependency_graph), LAMBDA orders :
        IF orders = {} THEN Raise("CircularDependenciesException")
        ELSE IF current_position \in dependency_graph.nodes
        THEN With(descendants(reverse(dependency_graph), current_position), LAMBDA dependents :
                 Return({SelectSeq(total_order, LAMBDA position : position \in dependents) :
                            total_order \in orders}))
        ELSE Return({<< >>}))

\* The lists __compute_dependencies can return, one per topological order.
compute_dependencies(current_position, dependency_graph) ==
    With(topological_sort(dependency_graph), LAMBDA orders :
        IF orders = {} THEN Raise("CircularDependenciesException")
        ELSE IF current_position \in dependency_graph.nodes
        THEN With(descendants(reverse(dependency_graph), current_position), LAMBDA dependents :
                 Return({SelectSeq(Reverse(total_order),
                                   LAMBDA position : position \in dependents) :
                            total_order \in orders}))
        ELSE Return({<< >>}))

-----------------------------------------------------------------------------
(* sheet.py: the evaluator.  cs is the cell store (self.__cells); the      *)
(* dictionary of evaluated positions is handed on from call to call, as    *)
(* the source mutates it in place.                                         *)

Ok(value, cache) == [exc |-> "", value |-> value, cache |-> cache]

\* The positions of a range in the order they are evaluated.
RECURSIVE SortedPositions(_)
SortedPositions(S) ==
    IF S = {} THEN << >>
    ELSE LET first == CHOOSE p \in S : \A q \in S :
                          p[1] < q[1] \/ (p[1] = q[1] /\ p[2] <= q[2])
         IN  <<first>> \o SortedPositions(S \ {first})

RECURSIVE evaluate_position(_, _, _)
RECURSIVE evaluate(_, _, _)
RECURSIVE evaluate_leaf_node(_, _, _)
RECURSIVE evaluate_internal_node(_, _, _)
RECURSIVE evaluate_range_values(_, _, _, _, _)

\* __evaluate_position never reading the evaluated positions.
evaluate_position_no_cache(cs, position, evaluated_positions) ==
    IF position \notin DOMAIN cs THEN Raise("EvaluationException")
    ELSE With(get_parsed_content(cs[position]), LAMBDA content :
             Then(IF IsNode(content) THEN evaluate(cs, content, evaluated_positions)
                  ELSE Ok(content, evaluated_positions),
                  LAMBDA r : Ok(r.value, DictSet(r.cache, position, r.value))))

\* __evaluate_position taking a position without a cell for the number 0.
evaluate_position_missing_zero(cs, position, evaluated_positions) ==
    IF position \in DOMAIN evaluated_positions
    THEN Ok(evaluated_positions[position], evaluated_positions)
    ELSE IF position \notin DOMAIN cs THEN Ok(FZero, evaluated_positions)
    ELSE With(get_parsed_content(cs[position]), LAMBDA content :
             Then(IF IsNode(content) THEN evaluate(cs, content, evaluated_positions)
                  ELSE Ok(content, evaluated_positions),
                  LAMBDA r : Ok(r.value, DictSet(r.cache, position, r.value))))

evaluate_position(cs, position, evaluated_positions) ==
    IF position \in DOMAIN evaluated_positions
    THEN Ok(evaluated_positions[position], evaluated_positions)
    ELSE IF position \notin DOMAIN cs THEN Raise("EvaluationException")
    ELSE With(get_parsed_content(cs[position]), LAMBDA content :
             Then(IF IsNode(content) THEN evaluate(cs, content, evaluated_positions)
                  ELSE Ok(content, evaluated_positions),
                  LAMBDA r : Ok(r.value, DictSet(r.cache, position, r.value))))

evaluate(cs, node, reevaluated_values) ==
    IF is_leaf(node) THEN evaluate_leaf_node(cs, node, reevaluated_values)
    ELSE evaluate_internal_node(cs, node, reevaluated_values)

evaluate_leaf_node(cs, node, cache) ==
    IF IsFloat(node.value) THEN Ok(node.value, cache)
    ELSE IF IsStr(node.value)
    THEN Then(cell_name_to_location(node.value.s),
              LAMBDA cell_position : evaluate_position(cs, cell_position.value, cache))
    ELSE Raise("EvaluationException")

\* The list comprehension of the range operator node leaving out the
\* positions that hold no cell.
evaluate_range_values_of_cells(cs, positions, i, cache, range_values) ==
    IF i > Len(positions) THEN Ok(range_values, cache)
    ELSE IF positions[i] \notin DOMAIN cs \cup DOMAIN cache
    THEN evaluate_range_values(cs, positions, i + 1, cache, range_values)
    ELSE Then(evaluate_position(cs, positions[i], cache), LAMBDA r :
             evaluate_range_values(cs, positions, i + 1, r.cache, Append(range_values, r.value)))

\* The list comprehension over the positions of a range.
evaluate_range_values(cs, positions, i, cache, range_values) ==
    IF i > Len(positions) THEN Ok(range_values, cache)
    ELSE Then(evaluate_position(cs, positions[i], cache), LAMBDA r :
             evaluate_range_values(cs, positions, i + 1, r.cache, Append(range_values, r.value)))

evaluate_internal_node(cs, node, cache) ==
    IF ~IsMathOperator(node.value) THEN Raise("EvaluationException")
    ELSE IF node.value.cls = "Range" THEN
        IF node.right = None THEN Raise("AttributeError")
        ELSE IF ~(IsStr(node.right.value) /\ node.left = None) THEN Raise("EvaluationException")
        ELSE Then(calculate_range_positions(node.right.value.s), LAMBDA range_positions :
             Then(evaluate_range_values(cs, SortedPositions(range_positions.value), 1, cache, << >>),
                  LAMBDA rv :
                 IF \E i \in DOMAIN rv.value : IsStr(rv.value[i])
                 THEN Raise("EvaluationException")
                 ELSE Then(calculate_range(node.value, rv.value),
                           LAMBDA c : Ok(c.value, rv.cache))))
    ELSE Then(IF node.left # None THEN evaluate(cs, node.left, cache) ELSE Ok(None, cache),
              LAMBDA l :
         Then(IF node.right # None THEN evaluate(cs, node.right, l.cache) ELSE Ok(None, l.cache),
              LAMBDA r :
             IF IsStr(l.value) \/ IsStr(l.value) THEN Raise("EvaluationException")
             ELSE IF node.value.cls = "Unary" THEN
                 IF r.value = None THEN Raise("EvaluationException")
                 ELSE Then(calculate_unary(node.value, r.value),
                           LAMBDA c : Ok(c.value, r.cache))
             ELSE IF node.value.cls = "Binary" THEN
                 IF l.value = None \/ r.value = None THEN Raise("EvaluationException")
                 ELSE Then(calculate_binary(node.value, l.value, r.value),
                           LAMBDA c : Ok(c.value, r.cache))
             ELSE Raise("EvaluationException")))

-----------------------------------------------------------------------------
(* sheet.py: try_update                                                    *)

\* The except clauses of try_update, in their order.
FailureReason(exc) ==
    CASE exc = "BadNameException" -> "BAD_NAME_REFERENCE"
      [] exc = "EvaluationException" -> "EVALUATION_FAILURE"
      [] exc = "ParserException" -> "COULD_NOT_PARSE"
      [] exc = "CircularDependenciesException" -> "DEPENDENCIES_CYCLE"
      [] exc = "ZeroDivisionError" -> "ZERO_DIVISION"
      [] OTHER -> "UNEXPECTED_EXCEPTION"

\* What a call leaves behind: the three committed structures and the returned triple.
\* exc is the exception the call caught, "" if it caught none.
Outcome(cs, values, graph, ok, changed, reason, exc) ==
    [cells |-> cs, cells_values |-> values, graph |-> graph,
     ok |-> ok, changed |-> changed, reason |-> reason, exc |-> exc]

Failed(cs, values, graph, exc) ==
    Outcome(cs, values, graph, FALSE, EmptyDict, FailureReason(exc), exc)

\* __delete_position without the test for dependents.
delete_position_unchecked(cs, values, position, dependent_positions) ==
    [exc |-> "", cells |-> DictPop(cs, position), cells_values |-> DictPop(values, position)]

\* __delete_position popping the cell and leaving its value.
delete_position_keeps_value(cs, values, position, dependent_positions) ==
    IF Len(dependent_positions) > 0 THEN Raise("EvaluationException")
    ELSE [exc |-> "", cells |-> DictPop(cs, position), cells_values |-> values]

\* Raises if anything depends on the position; else pops it from both dictionaries.
delete_position(cs, values, position, dependent_positions) ==
    IF Len(dependent_positions) > 0 THEN Raise("EvaluationException")
    ELSE [exc |-> "", cells |-> DictPop(cs, position), cells_values |-> DictPop(values, position)]

\* The loop of try_update over dependents_to_reevaluate.
RECURSIVE reevaluate_dependents(_, _, _, _, _)
reevaluate_dependents(cs, dependents_to_reevaluate, i, cached_results, positions_to_update) ==
    IF i > Len(dependents_to_reevaluate)
    THEN [exc |-> "", positions_to_update |-> positions_to_update]
    ELSE Then(evaluate_position(cs, dependents_to_reevaluate[i], cached_results), LAMBDA r :
             reevaluate_dependents(cs, dependents_to_reevaluate, i + 1, r.cache,
                                   DictSet(positions_to_update, dependents_to_reevaluate[i], r.value)))

\* The three assignments that commit a successful update.
commit_cell(cs, current_position, written_content, content) ==
    DictSet(cs, current_position, Cell(written_content, content))

commit_graph(graph, new_dependency_graph) == new_dependency_graph

\* The values replaced by the updated ones, not updated with them.
commit_values_replace(values, positions_to_update) == positions_to_update

commit_values(values, positions_to_update) == DictUpdate(values, positions_to_update)

\* try_update from the empty-content test on, for one order of the dependents.
\* graph is what self.__dependencies_graph holds at that point.
update_with_order(cs, values, graph, current_position, written_content, content, new_dependency_graph, dependents_to_reevaluate) ==
    IF content = Str("") THEN
        With(delete_position(cs, values, current_position, dependents_to_reevaluate), LAMBDA d :
            IF d.exc # "" THEN Failed(cs, values, graph, d.exc)
            ELSE Outcome(d.cells, d.cells_values, graph, TRUE,
                         DictSet(EmptyDict, current_position, None), "None", ""))
    ELSE
        With(IF IsNode(content) THEN evaluate(cs, content, EmptyDict) ELSE Ok(content, EmptyDict),
             LAMBDA e :
            IF e.exc # "" THEN Failed(cs, values, graph, e.exc)
            ELSE With(reevaluate_dependents(cs, dependents_to_reevaluate, 1,
                                            DictSet(e.cache, current_position, e.value),
                                            DictSet(EmptyDict, current_position, e.value)),
                      LAMBDA u :
                     IF u.exc # "" THEN Failed(cs, values, graph, u.exc)
                     ELSE Outcome(commit_cell(cs, current_position, written_content, content),
                                  commit_values(values, u.positions_to_update),
                                  commit_graph(graph, new_dependency_graph),
                                  TRUE, u.positions_to_update, "None", "")))

\* try_update from the graph update on, parsed content and dependencies in hand.
update_with_dependencies(cs, values, graph, current_position, written_content, content, position_dependencies) ==
    With(get_updated_graph(graph, current_position, position_dependencies), LAMBDA g :
    With(compute_dependencies(current_position, g.new_dependency_graph), LAMBDA orders :
        IF orders.exc # "" THEN {Failed(cs, values, g.self_graph, orders.exc)}
        ELSE {update_with_order(cs, values, g.self_graph, current_position,
                                written_content, content,
                                g.new_dependency_graph, dependents_to_reevaluate) :
                 dependents_to_reevaluate \in orders.value}))

\* The outcomes of try_update on the state (cs, values, graph): one per order
\* in which the dependents can be listed.
try_update_outcomes(cs, values, graph, current_position, written_content) ==
    With(parse_content(written_content), LAMBDA parsed :
        IF parsed.exc # "" THEN {Failed(cs, values, graph, parsed.exc)}
        ELSE With(IF IsNode(parsed.value) THEN get_dependencies(parsed.value) ELSE Return({}),
                  LAMBDA deps :
                 IF deps.exc # "" THEN {Failed(cs, values, graph, deps.exc)}
                 ELSE update_with_dependencies(cs, values, graph, current_position,
                                               written_content, parsed.value, deps.value)))

Call(position, written_content, ok, changed, reason, exc) ==
    [position |-> position, written_content |-> written_content, ok |-> ok,
     changed |-> changed, reason |-> reason, exc |-> exc]

\* The calls recorded since construction are at most MaxTrace; with each call
\* the store and the values it left behind.
MaxTrace == 4

Snapshot(call, cs, values) == [call |-> call, cells |-> cs, cells_values |-> values]

try_update(row_index, col_index, written_content) ==
    /\ tracing => Len(trace) < MaxTrace
    /\ \E out \in try_update_outcomes(cells, cells_values, dependencies_graph,
                                      <<row_index, col_index>>, written_content) :
          /\ cells' = out.cells
          /\ cells_values' = out.cells_values
          /\ dependencies_graph' = out.graph
          /\ ret' = Call(<<row_index, col_index>>, written_content,
                         out.ok, out.changed, out.reason, out.exc)
          /\ trace' = IF tracing
                      THEN Append(trace, Snapshot(ret', out.cells, out.cells_values))
                      ELSE trace
          /\ tracing' = tracing

get_cell_content(row_index, col_index) ==
    IF <<row_index, col_index>> \in DOMAIN cells
    THEN Str(get_content(cells[<<row_index, col_index>>]))
    ELSE None

get_value(row_index, col_index) ==
    IF <<row_index, col_index>> \in DOMAIN cells_values
    THEN cells_values[<<row_index, col_index>>]
    ELSE None

-----------------------------------------------------------------------------
(* sheet.py: construction                                                  *)

\* The loop over data.items(): cells maps positions to contents, keys lists
\* the positions in the order they were first inserted.
RECURSIVE load_data_from_json_loop(_, _, _, _)
load_data_from_json_loop(data, i, cs, keys) ==
    IF i > Len(data) THEN [exc |-> "", cells |-> cs, keys |-> keys]
    ELSE Then(cell_name_to_location(data[i][1]), LAMBDA location :
             load_data_from_json_loop(data, i + 1, DictSet(cs, location.value, data[i][2]),
                 IF location.value \in DOMAIN cs THEN keys ELSE Append(keys, location.value)))

load_data_from_json(json_file) == load_data_from_json_loop(json_file.data, 1, EmptyDict, << >>)

\* The dictionary comprehension of __init__ over data.items().
RECURSIVE parse_cells(_, _, _, _)
parse_cells(data, keys, i, cs) ==
    IF i > Len(keys) THEN [exc |-> "", cells |-> cs]
    ELSE Then(parse_content(data[keys[i]]), LAMBDA parsed :
             parse_cells(data, keys, i + 1, DictSet(cs, keys[i], Cell(data[keys[i]], parsed.value))))

\* The first loop of __evaluate_cells: the edges of each cell, and the test
\* for a cycle after each.
RECURSIVE evaluate_cells_edges(_, _, _, _)
evaluate_cells_edges(cs, keys, i, dependency_graph) ==
    IF i > Len(keys) THEN [exc |-> "", graph |-> dependency_graph]
    ELSE With(get_parsed_content(cs[keys[i]]), LAMBDA content :
         Then(IF IsNode(content) THEN get_dependencies(content) ELSE Return({}),
              LAMBDA dependencies :
         With(add_edges_from(dependency_graph,
                             {<<keys[i], dependency>> : dependency \in dependencies.value}),
              LAMBDA added :
             IF topological_sort(added) = {} THEN Raise("CircularDependenciesException")
             ELSE evaluate_cells_edges(cs, keys, i + 1, added))))

\* The second loop of __evaluate_cells.
RECURSIVE evaluate_cells_nodes(_, _, _)
evaluate_cells_nodes(keys, i, dependency_graph) ==
    IF i > Len(keys) THEN dependency_graph
    ELSE evaluate_cells_nodes(keys, i + 1, add_node(dependency_graph, keys[i]))

\* The third loop of __evaluate_cells, over one reverse topological order.
RECURSIVE evaluate_cells_values(_, _, _, _)
evaluate_cells_values(cs, reverse_topological_order, i, values) ==
    IF i > Len(reverse_topological_order) THEN [exc |-> "", values |-> values]
    ELSE Then(evaluate_position(cs, reverse_topological_order[i], values), LAMBDA r :
             evaluate_cells_values(cs, reverse_topological_order, i + 1,
                                   DictSet(r.cache, reverse_topological_order[i], r.value)))

\* The results of __evaluate_cells, one per reverse topological order.
evaluate_cells(cs, keys) ==
    With(evaluate_cells_edges(cs, keys, 1, DiGraph), LAMBDA edges :
        IF edges.exc # "" THEN {edges}
        ELSE With(evaluate_cells_nodes(keys, 1, edges.graph), LAMBDA dependency_graph :
                 {Then(evaluate_cells_values(cs, reverse_topological_order, 1, EmptyDict),
                       LAMBDA v : [exc |-> "", graph |-> remove_isolates(dependency_graph),
                                   values |-> v.values]) :
                     reverse_topological_order \in topological_sort(reverse(dependency_graph))}))

Constructed(cs, values, graph) == [cells |-> cs, cells_values |-> values, graph |-> graph]

\* Sheet(json_file): the sheets the constructor can return; none if it raises.
Sheet(json_file) ==
    IF json_file = None THEN {Constructed(EmptyDict, EmptyDict, DiGraph)}
    ELSE With(load_data_from_json(json_file), LAMBDA data :
             IF data.exc # "" THEN {}
             ELSE With(parse_cells(data.cells, data.keys, 1, EmptyDict), LAMBDA parsed :
                      IF parsed.exc # "" THEN {}
                      ELSE {Constructed(parsed.cells, e.values, e.graph) :
                               e \in {r \in evaluate_cells(parsed.cells, data.keys) : r.exc = ""}}))

-----------------------------------------------------------------------------
(* sheet.py: saving as json                                                *)

\* The dictionary __to_json_format returns, as the pairs of cell name and
\* content a json file holds; items_order is the order in which the
\* dictionary self.__cells lists its positions.
to_json_format(cs, items_order) ==
    [i \in 1..Len(items_order) |->
        <<get_cell_name(items_order[i][2], items_order[i][1]), get_content(cs[items_order[i]])>>]

\* The files __save_as_json can write for the store, one per order of the store.
save_as_json(cs) == {JsonFile(to_json_format(cs, items_order)) : items_order \in NodeOrders(DOMAIN cs)}

-----------------------------------------------------------------------------
(* The specifications                                                      *)

\* ret is the triple the last call returned, with its arguments; before the
\* first call it holds no call.
NoCall == Call(<<0, 0>>, "", FALSE, EmptyDict, "NoCall", "")

SheetInit(json_file) ==
    \E sheet \in Sheet(json_file) :
        /\ cells = sheet.cells
        /\ cells_values = sheet.cells_values
        /\ dependencies_graph = sheet.graph
        /\ ret = NoCall
        /\ trace = << >>

A1 == <<0, 0>>
B1 == <<0, 1>>
C1 == <<0, 2>>

EditPositions == {A1, B1, C1}

\* Any calls on a sheet constructed empty or from a json file.
Init == (\E json_file \in {None} \cup JsonFiles : SheetInit(json_file)) /\ tracing = FALSE

Next == \E position \in EditPositions, written_content \in Contents :
            try_update(position[1], position[2], written_content)

Spec == Init /\ [][Next]_vars

\* At most MaxTrace recorded calls on an empty sheet, writing and deleting a
\* number and a formula that reads it.
DeletionInit == SheetInit(None) /\ tracing = TRUE

DeletionNext == \E position \in {A1, B1}, written_content \in DeletionContents :
                    try_update(position[1], position[2], written_content)

DeletionSpec == DeletionInit /\ [][DeletionNext]_vars

\* At most MaxTrace recorded calls on an empty sheet, writing formulas that
\* read one another.
CycleInit == SheetInit(None) /\ tracing = TRUE

CycleNext == \E position \in EditPositions, written_content \in CycleContents :
                 try_update(position[1], position[2], written_content)

CycleSpec == CycleInit /\ [][CycleNext]_vars

\* Any calls on an empty sheet that write formulas with names inside and
\* outside the sheet.
BadNameInit == SheetInit(None) /\ tracing = FALSE

BadNameNext == \E position \in {A1, B1}, written_content \in BadNameContents :
                   try_update(position[1], position[2], written_content)

BadNameSpec == BadNameInit /\ [][BadNameNext]_vars

\* Positions next to the sheet: under its last row, right of its last column
\* and above its first row.
A21 == <<ROWS_NUM, 0>>
K1 == <<0, COLUMNS_NUM>>
A0 == <<-1, 0>>

\* Any calls on an empty sheet at A1 and at positions outside the sheet.
OutOfBoundsInit == SheetInit(None) /\ tracing = FALSE

OutOfBoundsNext == \E position \in {A1, A21, K1, A0}, written_content \in DeletionContents :
                       try_update(position[1], position[2], written_content)

OutOfBoundsSpec == OutOfBoundsInit /\ [][OutOfBoundsNext]_vars

\* Any calls at A1 and B1 on a sheet constructed with a number in C1 and a
\* text in D1.
ReferenceInit == SheetInit(ReferenceFile) /\ tracing = FALSE

ReferenceNext == \E position \in {A1, B1}, written_content \in ReferenceContents :
                     try_update(position[1], position[2], written_content)

ReferenceSpec == ReferenceInit /\ [][ReferenceNext]_vars

\* The positions of the sheet, and cell names inside and outside it, some
\* with zeros before the row number.
SheetPositions == (0..(ROWS_NUM - 1)) \X (0..(COLUMNS_NUM - 1))

CellNames == {column \o row : column \in {"A", "J", "K", "AA"},
                              row \in {"0", "1", "01", "20", "020", "21"}}

\* The conversions between positions and names, applied one after the other
\* to a position or to a name: ret holds the input and what each call
\* returned, stage the calls made so far.
CoordinateInit ==
    /\ cells = EmptyDict /\ cells_values = EmptyDict /\ dependencies_graph = DiGraph
    /\ trace = << >> /\ tracing = FALSE
    /\ \/ \E position \in SheetPositions : ret = [stage |-> "position", position |-> position]
       \/ \E cell_name \in CellNames : ret = [stage |-> "name", name |-> cell_name]

NameOfPosition ==
    /\ ret.stage = "position"
    /\ ret' = [stage |-> "position.name", position |-> ret.position,
               name |-> get_cell_name(ret.position[2], ret.position[1])]
    /\ UNCHANGED <<cells, cells_values, dependencies_graph, trace, tracing>>

LocationOfThatName ==
    /\ ret.stage = "position.name"
    /\ ret' = [stage |-> "position.name.position", position |-> ret.position,
               name |-> ret.name, back |-> cell_name_to_location(ret.name)]
    /\ UNCHANGED <<cells, cells_values, dependencies_graph, trace, tracing>>

LocationOfName ==
    /\ ret.stage = "name"
    /\ ret' = [stage |-> "name.position", name |-> ret.name,
               location |-> cell_name_to_location(ret.name)]
    /\ UNCHANGED <<cells, cells_values, dependencies_graph, trace, tracing>>

NameOfThatLocation ==
    /\ ret.stage = "name.position"
    /\ ret.location.exc = ""
    /\ ret' = [stage |-> "name.position.name", name |-> ret.name, location |-> ret.location,
               back |-> get_cell_name(ret.location.value[2], ret.location.value[1])]
    /\ UNCHANGED <<cells, cells_values, dependencies_graph, trace, tracing>>

CoordinateNext ==
    NameOfPosition \/ LocationOfThatName \/ LocationOfName \/ NameOfThatLocation

CoordinateSpec == CoordinateInit /\ [][CoordinateNext]_vars

\* The column names of one and two letters, and the column indices up to
\* MaxColumnIndex.
ColumnNames == UpperSet \cup {first \o second : first \in UpperSet, second \in UpperSet}

MaxColumnIndex == 80

\* The conversions between column names and column indices, applied one after
\* the other to a name or to an index.
ColumnInit ==
    /\ cells = EmptyDict /\ cells_values = EmptyDict /\ dependencies_graph = DiGraph
    /\ trace = << >> /\ tracing = FALSE
    /\ \/ \E column_name \in ColumnNames : ret = [stage |-> "name", name |-> column_name]
       \/ \E col_index \in 0..MaxColumnIndex : ret = [stage |-> "index", index |-> col_index]

IndexOfColumnName ==
    /\ ret.stage = "name"
    /\ ret' = [stage |-> "name.index", name |-> ret.name,
               index |-> column_name_to_index(ret.name)]
    /\ UNCHANGED <<cells, cells_values, dependencies_graph, trace, tracing>>

NameOfThatIndex ==
    /\ ret.stage = "name.index"
    /\ ret' = [stage |-> "name.index.name", name |-> ret.name, index |-> ret.index,
               back |-> column_index_to_name(ret.index)]
    /\ UNCHANGED <<cells, cells_values, dependencies_graph, trace, tracing>>

NameOfColumnIndex ==
    /\ ret.stage = "index"
    /\ ret' = [stage |-> "index.name", index |-> ret.index,
               name |-> column_index_to_name(ret.index)]
    /\ UNCHANGED <<cells, cells_values, dependencies_graph, trace, tracing>>

IndexOfThatName ==
    /\ ret.stage = "index.name"
    /\ ret' = [stage |-> "index.name.index", index |-> ret.index, name |-> ret.name,
               back |-> column_name_to_index(ret.name)]
    /\ UNCHANGED <<cells, cells_values, dependencies_graph, trace, tracing>>

ColumnNext == IndexOfColumnName \/ NameOfThatIndex \/ NameOfColumnIndex \/ IndexOfThatName

ColumnSpec == ColumnInit /\ [][ColumnNext]_vars

\* The ends of the ranges: positions in the corners of the sheet and next to
\* them outside it.
RangeEnds == {-1, 0, 1, 2, ROWS_NUM - 1, ROWS_NUM} \X {0, 1, COLUMNS_NUM - 1, COLUMNS_NUM}

RangeName(start, end) ==
    get_cell_name(start[2], start[1]) \o ":" \o get_cell_name(end[2], end[1])

\* The expansion of the range from any end to any end.
RangeInit ==
    /\ cells = EmptyDict /\ cells_values = EmptyDict /\ dependencies_graph = DiGraph
    /\ trace = << >> /\ tracing = FALSE
    /\ \E start \in RangeEnds, end \in RangeEnds :
          ret = [stage |-> "range", start |-> start, end |-> end, range |-> RangeName(start, end)]

PositionsOfRange ==
    /\ ret.stage = "range"
    /\ ret' = [stage |-> "range.positions", start |-> ret.start, end |-> ret.end,
               range |-> ret.range, positions |-> calculate_range_positions(ret.range)]
    /\ UNCHANGED <<cells, cells_values, dependencies_graph, trace, tracing>>

RangeNext == PositionsOfRange

RangeSpec == RangeInit /\ [][RangeNext]_vars

\* The expressions a op1 b op2 c over the five binary operators and small
\* numbers.
BinarySymbols == {"+", "-", "*", "/", "^"}

\* The parse of every such expression and the evaluation of its tree.
ParserInit ==
    /\ cells = EmptyDict /\ cells_values = EmptyDict /\ dependencies_graph = DiGraph
    /\ trace = << >> /\ tracing = FALSE
    /\ \E a \in {"1", "2"}, b \in {"2", "3"}, c \in {"2", "3"} :
       \E op1 \in BinarySymbols, op2 \in BinarySymbols :
          ret = [stage |-> "expression", a |-> a, op1 |-> op1, b |-> b, op2 |-> op2, c |-> c,
                 expression |-> a \o op1 \o b \o op2 \o c]

TreeOfExpression ==
    /\ ret.stage = "expression"
    /\ ret' = [ret EXCEPT !.stage = "expression.tree"] @@ [tree |-> syntax_tree(ret.expression)]
    /\ UNCHANGED <<cells, cells_values, dependencies_graph, trace, tracing>>

ValueOfTree ==
    /\ ret.stage = "expression.tree"
    /\ ret.tree.exc = ""
    /\ ret' = [ret EXCEPT !.stage = "expression.tree.value"]
              @@ [value |-> evaluate(EmptyDict, ret.tree.tree, EmptyDict)]
    /\ UNCHANGED <<cells, cells_values, dependencies_graph, trace, tracing>>

ParserNext == TreeOfExpression \/ ValueOfTree

ParserSpec == ParserInit /\ [][ParserNext]_vars

\* The expressions of at most n tokens of an alphabet, written one after the
\* other.
RECURSIVE Sentences(_, _)
Sentences(alphabet, n) ==
    IF n = 0 THEN {""}
    ELSE With(Sentences(alphabet, n - 1), LAMBDA shorter :
             shorter \cup {sentence \o token : sentence \in shorter, token \in alphabet})

\* Expressions of at most MaxDashTokens tokens with - at their start, after
\* numbers, cell names, brackets, operators and range calls, and some with
\* spaces.
MaxDashTokens == 4

DashAlphabet == {"-", "3", "A1", "(", ")", "sum(A1:A1)"}

DashExpressions ==
    Sentences(DashAlphabet, MaxDashTokens) \cup {"-3+4", "5--3", "5 - -3", "5 -3", "3+-4", "3*-(4)"}

\* The parse of every such expression: its tree and the value of the tree,
\* and beside them the scan of __postfix over its tokens, one token at a time.
DashInit ==
    /\ cells = EmptyDict /\ cells_values = EmptyDict /\ dependencies_graph = DiGraph
    /\ trace = << >> /\ tracing = FALSE
    /\ \E expression \in DashExpressions : ret = [stage |-> "expression", expression |-> expression]

\* __tokenize, and the start of __postfix: the tokens without the spaces and
\* the state before the first token.
TokensOfExpression ==
    /\ ret.stage = "expression"
    /\ \E tk \in {tokenize(ret.expression)} :
          /\ tk.exc = ""
          /\ ret' = [stage |-> "expression.tokens", expression |-> ret.expression,
                     tokens |-> SelectSeq(tk.tokens, LAMBDA token : ~IsSpace(token)),
                     scan |-> PostfixState(FALSE, FALSE, 1, << >>, << >>)]
    /\ UNCHANGED <<cells, cells_values, dependencies_graph, trace, tracing>>

\* One turn of the while loop of __postfix.
ScanToken ==
    /\ ret.stage = "expression.tokens"
    /\ ret.scan.exc = ""
    /\ ret.scan.token_index <= Len(ret.tokens)
    /\ ret' = [ret EXCEPT !.scan = process_token_postfix(ret.scan.token_index, ret.tokens,
                                       ret.scan.stack, ret.scan.postfix,
                                       ret.scan.is_prev_operand, ret.scan.is_prev_open_bracket)]
    /\ UNCHANGED <<cells, cells_values, dependencies_graph, trace, tracing>>

DashNext == TokensOfExpression \/ ScanToken \/ TreeOfExpression \/ ValueOfTree

DashSpec == DashInit /\ [][DashNext]_vars

\* Expressions of at most MaxBracketTokens tokens with round and square
\* brackets around and between numbers, and some with operators, range calls
\* and curly brackets.
MaxBracketTokens == 5

BracketAlphabet == {"1", "(", ")", "[", "]"}

BracketExpressions ==
    Sentences(BracketAlphabet, MaxBracketTokens)
        \cup {"sum(A1:A2)", "sum(A1:A2]", "sum[A1:A2]", "(sum(A1:A2)]", "[sum(A1:A2)]",
              "{[(1)]}", "{[(1)]]", "{1+[1+(1)]}", "1+(1", "(1+1)", "(1+1]", "(1)+[1]",
              "(1)+1]", "1+()", "(1+)", "1+1(1)", "(-1)", "( 1 )"}

\* The ways of writing one kind of bracket for another, each kind for a kind
\* of its own.
BracketKinds == <<"()", "[]", "{}">>

BracketPermutations ==
    {kinds \in [1..3 -> 1..3] : \A i, j \in 1..3 : kinds[i] = kinds[j] => i = j}

RewriteBracket(char, kinds) ==
    IF \E i \in 1..3, side \in 1..2 : Chr(BracketKinds[i], side) = char
    THEN With(CHOOSE at \in (1..3) \X (1..2) : Chr(BracketKinds[at[1]], at[2]) = char,
              LAMBDA at : Chr(BracketKinds[kinds[at[1]]], at[2]))
    ELSE char

RECURSIVE Rebracket(_, _)
Rebracket(expression, kinds) ==
    IF expression = "" THEN ""
    ELSE RewriteBracket(Chr(expression, 1), kinds)
             \o Rebracket(SubSeq(expression, 2, Len(expression)), kinds)

BracketInit ==
    /\ cells = EmptyDict /\ cells_values = EmptyDict /\ dependencies_graph = DiGraph
    /\ trace = << >> /\ tracing = FALSE
    /\ \E expression \in BracketExpressions : ret = [stage |-> "expression", expression |-> expression]

\* The parse of the expression written with other brackets.
TreeOfRebracketed ==
    /\ ret.stage = "expression.tree"
    /\ \E kinds \in BracketPermutations :
          ret' = [stage |-> "expression.tree.rebracketed", expression |-> ret.expression,
                  tree |-> ret.tree, rebracketed |-> Rebracket(ret.expression, kinds),
                  rebracketed_tree |-> syntax_tree(Rebracket(ret.expression, kinds))]
    /\ UNCHANGED <<cells, cells_values, dependencies_graph, trace, tracing>>

BracketNext == TreeOfExpression \/ TreeOfRebracketed

BracketSpec == BracketInit /\ [][BracketNext]_vars

\* Expressions of at most MaxRangeCallTokens tokens with a range operator,
\* brackets, a range name and a cell name, and some with spaces, numbers and
\* more tokens.
MaxRangeCallTokens == 4

RangeSymbols == {"max", "min", "sum", "average"}

RangeCallAlphabet(symbol) == {symbol, "(", ")", "[", "]", "A1:A4", "A1"}

RangeCallExpressions ==
    UNION {Sentences(RangeCallAlphabet(symbol), MaxRangeCallTokens) : symbol \in RangeSymbols}
        \cup {"max A1:A4", "max (A1:A4)", "max((A1:A4))", "max(A1:A4))", "(max(A1:A4))",
              "1+max(A1:A4)", "max(A1:A4)+1", "max{A1:A4}", "max{A1:A4)", "1+A1:A4",
              "sum(A1:A4)+min(A1:A4)", "sum(A1:A4)+min(A1)", "-average[A1:A4]"}

RangeCallInit ==
    /\ cells = EmptyDict /\ cells_values = EmptyDict /\ dependencies_graph = DiGraph
    /\ trace = << >> /\ tracing = FALSE
    /\ \E expression \in RangeCallExpressions :
          ret = [stage |-> "expression", expression |-> expression]

RangeCallNext == TreeOfExpression

RangeCallSpec == RangeCallInit /\ [][RangeCallNext]_vars

A2 == <<1, 0>>

\* Any calls on a sheet constructed with the numbers 1, 2, 3 and 4 in A1 to
\* A4: calls of the range operators written to B1 and deleted, and a text and
\* numbers written to A2 and deleted.
RangeValueInit == SheetInit(RangeValueFile) /\ tracing = FALSE

RangeValueNext ==
    \/ \E written_content \in RangeValueContents \ {"abc", "7"} :
           try_update(B1[1], B1[2], written_content)
    \/ \E written_content \in {"abc", "7", "0", ""} : try_update(A2[1], A2[2], written_content)

RangeValueSpec == RangeValueInit /\ [][RangeValueNext]_vars

\* Any calls at A1, B1 and C1 on a sheet constructed with a number in A1, a
\* formula in B1 that reads A1 and a formula in C1 that reads both.
ChainInit == SheetInit(ChainFile) /\ tracing = FALSE

ChainNext == \E position \in EditPositions, written_content \in ChainContents :
                 try_update(position[1], position[2], written_content)

ChainSpec == ChainInit /\ [][ChainNext]_vars

\* Expressions of at most MaxOperandTokens tokens with numbers next to unary
\* operators, range calls and binary operators, with and without spaces.
MaxOperandTokens == 4

OperandAlphabet == {"1", "2", "sin", "-", "+", "max(A1:A2)", " "}

OperandExpressions ==
    Sentences(OperandAlphabet, MaxOperandTokens) \cup {"1 sin 2", "3 max(A1:A2)", "1+2 sin 2", "(1 sin 2)"}

OperandInit ==
    /\ cells = EmptyDict /\ cells_values = EmptyDict /\ dependencies_graph = DiGraph
    /\ trace = << >> /\ tracing = FALSE
    /\ \E expression \in OperandExpressions :
          ret = [stage |-> "expression", expression |-> expression]

OperandNext == TreeOfExpression

OperandSpec == OperandInit /\ [][OperandNext]_vars

\* The expressions x b u y of a binary operator b whose right operand is the
\* unary operator u applied to y, over numbers and cell names.
UnarySymbols == {"-", "sin"}

SignedInit ==
    /\ cells = EmptyDict /\ cells_values = EmptyDict /\ dependencies_graph = DiGraph
    /\ trace = << >> /\ tracing = FALSE
    /\ \E x \in {"2", "3", "A1"}, y \in {"0", "3", "B1"} :
       \E b \in BinarySymbols, u \in UnarySymbols :
          ret = [stage |-> "expression", x |-> x, b |-> b, u |-> u, y |-> y,
                 expression |-> x \o b \o u \o y]

SignedNext == TreeOfExpression \/ ValueOfTree

SignedSpec == SignedInit /\ [][SignedNext]_vars

\* Any calls at A1 and B1 on an empty sheet that write and delete a number
\* and formulas that read A1 and C1.
DanglingInit == SheetInit(None) /\ tracing = FALSE

DanglingNext == \E position \in {A1, B1}, written_content \in DanglingContents :
                    try_update(position[1], position[2], written_content)

DanglingSpec == DanglingInit /\ [][DanglingNext]_vars

-----------------------------------------------------------------------------
(* What the properties speak of                                            *)

\* The positions the formula stored at q names; none if q holds no formula.
References(cs, q) ==
    IF q \in DOMAIN cs /\ IsNode(get_parsed_content(cs[q]))
    THEN With(get_dependencies(get_parsed_content(cs[q])),
              LAMBDA d : IF d.exc = "" THEN d.value ELSE {})
    ELSE {}

ReadsEdges(cs) == UNION {{<<q, d>> : d \in References(cs, q)} : q \in DOMAIN cs}

RECURSIVE TransitiveClosure(_)
TransitiveClosure(E) ==
    With(E \cup UNION {{<<e[1], f[2]>> : f \in {g \in E : g[1] = e[2]}} : e \in E},
         LAMBDA step : IF step = E THEN E ELSE TransitiveClosure(step))

\* The positions whose stored formula reads p, directly or through other formulas.
Dependents(cs, p) == {e[1] : e \in {f \in TransitiveClosure(ReadsEdges(cs)) : f[2] = p}}

Acyclic(G) == \A e \in TransitiveClosure(G.edges) : e[1] # e[2]

\* p holds the same cell, or none, in both stores; likewise for the values.
SameAt(d, e, p) == (p \in DOMAIN d <=> p \in DOMAIN e) /\ (p \in DOMAIN d => d[p] = e[p])

SameContentAt(cs, ds, p) ==
    /\ p \in DOMAIN cs <=> p \in DOMAIN ds
    /\ p \in DOMAIN cs => get_content(cs[p]) = get_content(ds[p])

IsDelete(call) == call.written_content = ""

-----------------------------------------------------------------------------
(* The properties                                                          *)

\* C1: whenever try_update returns ok = false, whatever the reason, the map
\* of changed positions it returns is empty and the cell store, the value
\* cache and the dependency graph are what they were before the call.
C1_FailedUpdateChangesNothing ==
    [][~ret'.ok =>
          /\ ret'.changed = EmptyDict
          /\ cells' = cells
          /\ cells_values' = cells_values
          /\ dependencies_graph' = dependencies_graph]_vars

\* A call rejected for a cycle on a sheet that holds formulas.
C1_Witness ==
    /\ ~ret.ok
    /\ ret.reason = "DEPENDENCIES_CYCLE"
    /\ dependencies_graph.edges # {}

\* C2: after each successful try_update, every position of the cell store has
\* a cached value, and get_value returns what evaluating the position's parsed
\* content from scratch against the store gives.
C2_CachedValueIsFreshValue ==
    ret.ok =>
        \A p \in DOMAIN cells :
            /\ p \in DOMAIN cells_values
            /\ \E fresh \in {evaluate_position(cells, p, EmptyDict)} :
                  fresh.exc = "" /\ get_value(p[1], p[2]) = fresh.value

\* A number was written under two formulas that read it.
C2_Witness ==
    /\ ret.ok
    /\ ret.position = A1
    /\ ret.written_content = "5"
    /\ {B1, C1} \subseteq DOMAIN cells
    /\ get_content(cells[B1]) = "=A1*3"
    /\ get_content(cells[C1]) = "=B1+A1"
    /\ get_value(0, 2) = Float(20, 1)

\* C3: in every reachable state, after construction and after any calls of
\* try_update, the committed dependency graph has no directed cycle and no
\* self-loop.
C3_GraphIsAcyclic == Acyclic(dependencies_graph)

\* A formula that would close a cycle was rejected on a graph with edges.
C3_Witness ==
    /\ ret.reason = "DEPENDENCIES_CYCLE"
    /\ ret.written_content = "=B1+A1"
    /\ ret.position = A1
    /\ <<B1, A1>> \in dependencies_graph.edges

\* C4: a successful try_update(p, raw) returning the map D changes the raw
\* content of no position but p and the cached value of no position outside
\* the keys of D; a deletion removes p, and only p, from the store and from
\* the value cache.
C4_SuccessChangesOnlyTheKeys ==
    [][ret'.ok =>
          /\ \A q \in (DOMAIN cells \cup DOMAIN cells') \ {ret'.position} :
                SameContentAt(cells, cells', q)
          /\ \A q \in (DOMAIN cells_values \cup DOMAIN cells_values') \ DOMAIN ret'.changed :
                SameAt(cells_values, cells_values', q)
          /\ IsDelete(ret') =>
                /\ DOMAIN ret'.changed = {ret'.position}
                /\ cells' = DictPop(cells, ret'.position)
                /\ cells_values' = DictPop(cells_values, ret'.position)]_vars

\* A successful update of one formula on a sheet with two other cells.
C4_Witness ==
    /\ ret.ok
    /\ ~IsDelete(ret)
    /\ DOMAIN ret.changed = {C1}
    /\ DOMAIN cells_values = {A1, B1, C1}

\* C5: a successful try_update(p, raw) that is no deletion returns a map whose
\* keys are p and every position whose formula reads p directly or through
\* other formulas, each with the value the position evaluates to under the
\* new content of p.
C5_ChangedIsPositionAndDependents ==
    (ret.ok /\ ~IsDelete(ret)) =>
        /\ DOMAIN ret.changed = {ret.position} \cup Dependents(cells, ret.position)
        /\ \A q \in DOMAIN ret.changed :
              \E fresh \in {evaluate_position(cells, q, EmptyDict)} :
                  fresh.exc = "" /\ ret.changed[q] = fresh.value

\* A1 = 2, B1 = A1*3, C1 = B1+A1, then A1 = 5 returned {A1: 5, B1: 15, C1: 20}.
C5_Witness ==
    /\ ret.ok
    /\ ret.position = A1
    /\ ret.written_content = "5"
    /\ {B1, C1} \subseteq DOMAIN cells
    /\ get_content(cells[B1]) = "=A1*3"
    /\ get_content(cells[C1]) = "=B1+A1"
    /\ ret.changed = (A1 :> Float(5, 1)) @@ (B1 :> Float(15, 1)) @@ (C1 :> Float(20, 1))

Called(k, position, written_content) ==
    /\ k \in DOMAIN trace
    /\ trace[k].call.position = position
    /\ trace[k].call.written_content = written_content

\* C7: where a holds a number, b holds a formula that reads a and nothing
\* else reads a, once try_update(b, "") has succeeded, try_update(a, "")
\* succeeds, returns {a: absent} and removes a from the store.
C7_DeleteAfterItsReaderIsDeleted ==
    \A k \in DOMAIN trace : \A a, b \in EditPositions :
        (/\ k >= 2 /\ k + 1 \in DOMAIN trace
         /\ a \in DOMAIN trace[k - 1].cells
         /\ IsFloat(get_parsed_content(trace[k - 1].cells[a]))
         /\ a \in References(trace[k - 1].cells, b)
         /\ Dependents(trace[k - 1].cells, a) = {b}
         /\ Called(k, b, "") /\ trace[k].call.ok
         /\ Called(k + 1, a, ""))
        => /\ trace[k + 1].call.ok
           /\ trace[k + 1].call.changed = (a :> None)
           /\ a \notin DOMAIN trace[k + 1].cells

\* f is a formula, of a syntax the parser accepts, and one of its tokens is
\* the name of p or of a range that holds p.
Names(f, p) ==
    /\ startswith(f, EQUATION_PREFIX)
    /\ \E parsed \in {parse_content(f)} : parsed.exc = "" /\ IsNode(parsed.value)
    /\ \E tokens \in {tokenize(SubSeq(f, 2, Len(f)))} :
          /\ tokens.exc = ""
          /\ \E i \in DOMAIN tokens.tokens :
                \/ cell_name_to_location(tokens.tokens[i]) = Return(p)
                \/ /\ RANGE_NAME_PATTERN(tokens.tokens[i])
                   /\ \E positions \in {calculate_range_positions(tokens.tokens[i])} :
                         positions.exc = "" /\ p \in positions.value

\* C8: every try_update(p, f) with a formula f that names p, as a
\* cell or inside a range, is rejected with the reason of a cycle, whether or
\* not p holds a cell.
C8_SelfReferenceIsACycle ==
    (ret.reason # "NoCall" /\ Names(ret.written_content, ret.position)) =>
        ~ret.ok /\ ret.reason = "DEPENDENCIES_CYCLE"

\* The three calls of the scenario, on the empty sheet.
TransitiveCycleCalls ==
    /\ Called(1, A1, "=B1")
    /\ Called(2, B1, "=C1")
    /\ Called(3, C1, "=A1")

\* C9, as stated: on an empty sheet, after try_update(A1, "=B1") and
\* try_update(B1, "=C1"), try_update(C1, "=A1") is rejected with the reason of
\* a cycle, and A1 and B1 have the values they had before it.
C9_TransitiveCycleRejectedAsCycle ==
    TransitiveCycleCalls =>
        /\ ~trace[3].call.ok
        /\ trace[3].call.reason = "DEPENDENCIES_CYCLE"
        /\ SameAt(trace[2].cells_values, trace[3].cells_values, A1)
        /\ SameAt(trace[2].cells_values, trace[3].cells_values, B1)

\* C9, amended: on an empty sheet each of try_update(A1, "=B1"),
\* try_update(B1, "=C1") and try_update(C1, "=A1") is rejected with the reason
\* of an evaluation error, for the cell its formula reads does not exist; A1
\* and B1 have no value before the third call and none after it.
C9_TransitiveCycleRejectedAsMissingCell ==
    TransitiveCycleCalls =>
        /\ \A k \in 1..3 : ~trace[k].call.ok /\ trace[k].call.reason = "EVALUATION_FAILURE"
        /\ SameAt(trace[2].cells_values, trace[3].cells_values, A1)
        /\ SameAt(trace[2].cells_values, trace[3].cells_values, B1)
        /\ A1 \notin DOMAIN trace[3].cells_values
        /\ B1 \notin DOMAIN trace[3].cells_values

C9_Witness == TransitiveCycleCalls /\ Len(trace) = 3

\* No edge of the graph leaves a position without a cell.
NoEdgeOfDeletedCell == \A e \in dependencies_graph.edges : e[1] \in DOMAIN cells

\* C10: a try_update whose evaluation, of the edited cell or of a dependent
\* evaluated again, divides by a zero right operand fails with the reason of a
\* division by zero, and the edited position keeps the content and the value
\* it had, or none.  The division =1/A1 is reached whenever it is written
\* beside an A1 that holds 0, and whenever 0 is written to A1 under a stored
\* =1/A1 and every edge of the graph leaves a stored cell.
C10_DivisionByZero ==
    [][/\ ret'.exc = "ZeroDivisionError" =>
            /\ ~ret'.ok
            /\ ret'.reason = "ZERO_DIVISION"
            /\ ret'.changed = EmptyDict
            /\ SameAt(cells, cells', ret'.position)
            /\ SameAt(cells_values, cells_values', ret'.position)
       /\ (/\ ret'.position # A1
           /\ ret'.written_content = "=1/A1"
           /\ A1 \in DOMAIN cells
           /\ get_content(cells[A1]) = "0") => ret'.exc = "ZeroDivisionError"
       /\ (/\ ret'.position = A1
           /\ ret'.written_content = "0"
           /\ NoEdgeOfDeletedCell
           /\ \E q \in DOMAIN cells : get_content(cells[q]) = "=1/A1")
          => ret'.exc = "ZeroDivisionError"]_vars

\* A1 = 0, then B1 = 1/A1 failed for the division and B1 holds no cell.
C10_Witness ==
    /\ ret.position = B1
    /\ ret.written_content = "=1/A1"
    /\ ret.reason = "ZERO_DIVISION"
    /\ A1 \in DOMAIN cells
    /\ get_content(cells[A1]) = "0"
    /\ B1 \notin DOMAIN cells

\* f is a formula, of a syntax the parser accepts, and one of its tokens is a
\* cell name whose row or column lies outside the sheet.
NamesCellOutsideSheet(f) ==
    /\ startswith(f, EQUATION_PREFIX)
    /\ \E parsed \in {parse_content(f)} : parsed.exc = "" /\ IsNode(parsed.value)
    /\ \E tokens \in {tokenize(SubSeq(f, 2, Len(f)))} :
          /\ tokens.exc = ""
          /\ \E i \in DOMAIN tokens.tokens :
                /\ CELL_PATTERN(tokens.tokens[i])
                /\ cell_name_to_location(tokens.tokens[i]).exc = "BadNameException"

\* C11: every try_update with a formula that contains a cell name whose row
\* or column lies outside the sheet fails with the reason of a bad name,
\* whatever else the formula contains.
C11_OutsideNameIsBadName ==
    (ret.reason # "NoCall" /\ NamesCellOutsideSheet(ret.written_content)) =>
        ~ret.ok /\ ret.reason = "BAD_NAME_REFERENCE"

\* C12: every try_update at a position outside 0 <= row < ROWS_NUM,
\* 0 <= col < COLUMNS_NUM is rejected with the reason of a bad name, whatever
\* the content, so every position of the cell store is inside the sheet.
C12_OutsidePositionIsRejected ==
    /\ (ret.reason # "NoCall" /\ ~position_in_sheet_range(ret.position)) =>
           ~ret.ok /\ ret.reason = "BAD_NAME_REFERENCE"
    /\ \A position \in DOMAIN cells : position_in_sheet_range(position)

\* The positions inside the sheet that the tokens of the formula f name, as
\* cells or inside ranges; none unless f is of a syntax the parser accepts.
NamedPositions(f) ==
    IF ~startswith(f, EQUATION_PREFIX) THEN {}
    ELSE IF \E parsed \in {parse_content(f)} : parsed.exc # "" \/ ~IsNode(parsed.value) THEN {}
    ELSE UNION {UNION {IF CELL_PATTERN(tokens.tokens[i])
                       THEN With(cell_name_to_location(tokens.tokens[i]),
                                 LAMBDA r : IF r.exc = "" THEN {r.value} ELSE {})
                       ELSE IF RANGE_NAME_PATTERN(tokens.tokens[i])
                       THEN With(calculate_range_positions(tokens.tokens[i]),
                                 LAMBDA r : IF r.exc = "" THEN r.value ELSE {})
                       ELSE {} : i \in DOMAIN tokens.tokens} :
                   tokens \in {tokenize(SubSeq(f, 2, Len(f)))}}

\* C13: every try_update with a formula that names, as a cell or inside a
\* range, a position inside the sheet that holds no cell fails with the
\* reason of an evaluation error and stores nothing.
C13_MissingCellIsEvaluationError ==
    [][(\E q \in NamedPositions(ret'.written_content) : q \notin DOMAIN cells) =>
          /\ ~ret'.ok
          /\ ret'.reason = "EVALUATION_FAILURE"
          /\ cells' = cells
          /\ cells_values' = cells_values]_vars

\* C14: every try_update with a formula that names a cell holding a literal
\* text fails with the reason of an evaluation error, wherever the name
\* stands: as the whole formula, as the left or the right operand of a binary
\* operator, as the operand of a unary operator or inside a range.
C14_TextCellIsEvaluationError ==
    [][(\E q \in NamedPositions(ret'.written_content) :
            q \in DOMAIN cells /\ IsStr(get_parsed_content(cells[q]))) =>
          ~ret'.ok /\ ret'.reason = "EVALUATION_FAILURE"]_vars

\* C15, as stated: the name of a position of the sheet converts back to the
\* position, and the position of a name [A-Z]+[0-9]+ inside the sheet converts
\* back to the name.
C15_CoordinateRoundTrip ==
    /\ ret.stage = "position.name.position" => ret.back = Return(ret.position)
    /\ ret.stage = "name.position.name" => ret.back = ret.name

\* The row number of the name starts with no zero.
NoLeadingZero(cell_name) == Chr(RowGroup(cell_name), 1) # "0"

\* C15, amended: the name of a position of the sheet converts back to the
\* position; the position of a name [A-Z]+[0-9]+ inside the sheet converts
\* back to the name if the row number of the name starts with no zero, and
\* else to the name without these zeros, which names the same position.
C15_CoordinateRoundTripWithoutZeros ==
    /\ ret.stage = "position.name.position" => ret.back = Return(ret.position)
    /\ ret.stage = "name.position.name" =>
          /\ NoLeadingZero(ret.name) => ret.back = ret.name
          /\ NoLeadingZero(ret.back)
          /\ cell_name_to_location(ret.back) = ret.location

\* J20 went to (19, 9) and back to J20.
C15_Witness ==
    /\ ret.stage = "name.position.name"
    /\ ret.name = "J20"
    /\ ret.location = Return(<<19, 9>>)
    /\ ret.back = "J20"

\* The sum of digit(name[i]) * 26^i over the characters of the name, i counted
\* from 0 at the leftmost, with A..Z for the digits 0..25.
RECURSIVE PositionalSum(_, _)
PositionalSum(column_name, i) ==
    IF i > Len(column_name) THEN 0
    ELSE (Ord(Chr(column_name, i)) - A_ASCII) * Pow(NUMBER_OF_LETTERS, i - 1)
         + PositionalSum(column_name, i + 1)

\* C16: the index of every column name is the sum of digit(name[i]) * 26^i,
\* and on names of several letters the conversion from name to index and the
\* conversion from index to name are inverse of each other.
C16_ColumnIndexIsPositional ==
    /\ ret.stage = "name.index" => ret.index = PositionalSum(ret.name, 1)
    /\ (ret.stage = "name.index.name" /\ Len(ret.name) > 1) => ret.back = ret.name
    /\ (ret.stage = "index.name.index" /\ Len(ret.name) > 1) => ret.back = ret.index

\* The two ends are inside the sheet and lie on one row, the start not right
\* of the end, or on one column, the start not under the end.
IsLine(start, end) ==
    /\ start \in SheetPositions /\ end \in SheetPositions
    /\ \/ start[1] = end[1] /\ start[2] <= end[2]
       \/ start[2] = end[2] /\ start[1] <= end[1]

\* C17: the expansion of the range X:Y succeeds iff both ends are inside the
\* sheet and share a row with col(X) <= col(Y) or share a column with
\* row(X) <= row(Y); it then returns the positions from X to Y on that line,
\* both included, the one position when X = Y; every other range is rejected
\* with a bad name.
C17_RangeExpansion ==
    ret.stage = "range.positions" =>
        /\ ret.positions.exc = "" <=> IsLine(ret.start, ret.end)
        /\ IsLine(ret.start, ret.end) =>
              ret.positions.value =
                  {position \in SheetPositions :
                      /\ ret.start[1] <= position[1] /\ position[1] <= ret.end[1]
                      /\ ret.start[2] <= position[2] /\ position[2] <= ret.end[2]}
        /\ ~IsLine(ret.start, ret.end) => ret.positions = Raise("BadNameException")

\* A1:A3 gave the three positions of the column from A1 to A3.
C17_Witness ==
    /\ ret.stage = "range.positions"
    /\ ret.range = "A1:A3"
    /\ ret.positions = Return({<<0, 0>>, <<1, 0>>, <<2, 0>>})

\* C18: in every reachable state the positions with a cell in the store are
\* the positions with a cached value: a stored cell has a value, and a
\* position never written, or deleted by try_update with the empty string,
\* has none.
C18_StoreAndCacheHoldTheSamePositions == DOMAIN cells = DOMAIN cells_values

\* B1 held a formula that read A1 and was deleted: its edge is still in the
\* graph, and it has no cell and no value beside the cells A1 and C1.
C18_Witness ==
    /\ ret.ok
    /\ IsDelete(ret)
    /\ ret.position = B1
    /\ <<B1, A1>> \in dependencies_graph.edges
    /\ DOMAIN cells = {A1, C1}
    /\ B1 \notin DOMAIN cells_values

\* C19: in every state reachable by calls of try_update, saving the store as
\* the json map from names to contents and constructing a new sheet from it
\* succeeds and gives the same content and the same value at every position.
C19_JsonRoundTrip ==
    \A json_file \in save_as_json(cells) :
        /\ Sheet(json_file) # {}
        /\ \A sheet \in Sheet(json_file) :
              /\ DOMAIN sheet.cells = DOMAIN cells
              /\ \A position \in DOMAIN cells : SameContentAt(sheet.cells, cells, position)
              /\ sheet.cells_values = cells_values

\* How tight a binary operator binds, and whether it groups from the left.
Tightness(symbol) ==
    CASE symbol \in {"+", "-"} -> 1
      [] symbol \in {"*", "/"} -> 2
      [] symbol = "^" -> 3

LeftToRight(symbol) == symbol \in {"+", "-", "*", "/"}

GroupsLeft(op1, op2) ==
    \/ Tightness(op1) > Tightness(op2)
    \/ Tightness(op1) = Tightness(op2) /\ LeftToRight(op1)

Leaf(number) == Node(FloatOf(number), None, None)

Binary(symbol, left, right) == Node(FirstOperator(symbol, "Binary"), left, right)

\* C20: the parser groups binary operators by precedence and associativity:
\* * and / bind tighter than + and -, ^ binds tightest, + - * / group from the
\* left and ^ from the right, so a op1 b op2 c yields the tree (a op1 b) op2 c
\* exactly when op1 binds tighter than op2, or as tight and from the left, and
\* a op1 (b op2 c) otherwise; 1+2*3 is 7 and 2^3^2 is 512.
C20_PrecedenceAndAssociativity ==
    /\ ret.stage \in {"expression.tree", "expression.tree.value"} =>
          ret.tree = [exc |-> "", dropped |-> 0,
                      tree |-> IF GroupsLeft(ret.op1, ret.op2)
                               THEN Binary(ret.op2, Binary(ret.op1, Leaf(ret.a), Leaf(ret.b)),
                                           Leaf(ret.c))
                               ELSE Binary(ret.op1, Leaf(ret.a),
                                           Binary(ret.op2, Leaf(ret.b), Leaf(ret.c)))]
    /\ (ret.stage = "expression.tree.value" /\ ret.expression = "1+2*3") =>
          ret.value.exc = "" /\ ret.value.value = Float(7, 1)
    /\ (ret.stage = "expression.tree.value" /\ ret.expression = "2^3^2") =>
          ret.value.exc = "" /\ ret.value.value = Float(512, 1)

\* 2^3^2 was parsed as 2^(3^2) and evaluated to 512.
C20_Witness ==
    /\ ret.stage = "expression.tree.value"
    /\ ret.expression = "2^3^2"
    /\ ret.tree.tree = Binary("^", Leaf("2"), Binary("^", Leaf("3"), Leaf("2")))
    /\ ret.value.value = Float(512, 1)

\* The token before the i-th token is a number, a cell name or a closing
\* bracket; a range call ends with its closing bracket.
PreviousIsOperand(tokens, i) ==
    /\ i > 1
    /\ \/ is_number(tokens[i - 1])
       \/ CELL_PATTERN(tokens[i - 1])
       \/ tokens[i - 1] \in {")", "]", "}"}

Unary(symbol, operand) == Node(FirstOperator(symbol, "Unary"), None, operand)

\* The scan has just taken a - token.
DashScanned ==
    /\ ret.stage = "expression.tokens"
    /\ ret'.stage = "expression.tokens"
    /\ ret'.scan # ret.scan
    /\ ret.tokens[ret.scan.token_index] = "-"

\* C21: a - token is taken for the binary subtraction exactly when the token
\* before it, spaces aside, is an operand (a number, a cell name, a closing
\* bracket or a completed range call) and for the unary negation otherwise;
\* -3+4 evaluates to 1 and 5--3 to 8.
C21_DashIsBinaryAfterOperand ==
    /\ [][DashScanned =>
             /\ ret'.scan.exc = ""
             /\ ret'.scan.stack[Len(ret'.scan.stack)] =
                   IF PreviousIsOperand(ret.tokens, ret.scan.token_index) THEN Minus ELSE Negate]_vars
    /\ [](ret.stage = "expression.tree.value" =>
             /\ ret.expression = "-3+4" =>
                   /\ ret.tree.tree = Binary("+", Unary("-", Leaf("3")), Leaf("4"))
                   /\ ret.value = Ok(Float(1, 1), EmptyDict)
             /\ ret.expression = "5--3" =>
                   /\ ret.tree.tree = Binary("-", Leaf("5"), Unary("-", Leaf("3")))
                   /\ ret.value = Ok(Float(8, 1), EmptyDict))

\* 5--3 was parsed as 5 - (-3) and evaluated to 8.
C21_Witness ==
    /\ ret.stage = "expression.tree.value"
    /\ ret.expression = "5--3"
    /\ ret.tree.tree = Binary("-", Leaf("5"), Unary("-", Leaf("3")))
    /\ ret.value.value = Float(8, 1)

\* The tokens of an expression, spaces aside.
Tokens(expression) ==
    SelectSeq(tokenize(expression).tokens, LAMBDA token : ~IsSpace(token))

SameKind(open_bracket, close_bracket) ==
    <<open_bracket, close_bracket>> \in {<<"(", ")">>, <<"[", "]">>, <<"{", "}">>}

\* Every closing bracket closes the last open bracket not yet closed, which is
\* of its kind, and no open bracket is left; opened lists the open brackets
\* not yet closed before the i-th token.
RECURSIVE BracketsMatch(_, _, _)
BracketsMatch(tokens, i, opened) ==
    IF i > Len(tokens) THEN opened = << >>
    ELSE IF tokens[i] \in {"(", "[", "{"}
    THEN BracketsMatch(tokens, i + 1, Append(opened, tokens[i]))
    ELSE IF tokens[i] \in {")", "]", "}"}
    THEN /\ opened # << >>
         /\ SameKind(opened[Len(opened)], tokens[i])
         /\ BracketsMatch(tokens, i + 1, SubSeq(opened, 1, Len(opened) - 1))
    ELSE BracketsMatch(tokens, i + 1, opened)

EmptyBrackets(tokens) ==
    \E i \in 1..(Len(tokens) - 1) :
        tokens[i] \in {"(", "[", "{"} /\ tokens[i + 1] \in {")", "]", "}"}

BracketAfterOperand(tokens) ==
    \E i \in 1..Len(tokens) : tokens[i] \in {"(", "[", "{"} /\ PreviousIsOperand(tokens, i)

\* C22: the three kinds of brackets group alike, and an accepted formula has
\* every closing bracket matching an open bracket of its kind: a closing
\* bracket of another kind or without an open one, an open bracket never
\* closed, an empty pair and an open bracket right after an operand are each
\* a ParserException.
C22_BracketsMatchInKind ==
    /\ (ret.stage \in {"expression.tree", "expression.tree.rebracketed"} /\ ret.tree.exc = "") =>
          /\ BracketsMatch(Tokens(ret.expression), 1, << >>)
          /\ ~EmptyBrackets(Tokens(ret.expression))
          /\ ~BracketAfterOperand(Tokens(ret.expression))
    /\ (ret.stage \in {"expression.tree", "expression.tree.rebracketed"} /\ ret.tree.exc # "") =>
          ret.tree = ParserException
    /\ ret.stage = "expression.tree.rebracketed" => ret.rebracketed_tree = ret.tree

\* ([1]) was accepted, and so was {(1)}, as the same tree.
C22_Witness ==
    /\ ret.stage = "expression.tree.rebracketed"
    /\ ret.expression = "([1])"
    /\ ret.rebracketed = "{(1)}"
    /\ ret.rebracketed_tree = [exc |-> "", tree |-> Leaf("1"), dropped |-> 0]

\* The i-th token is a range operator followed by an open bracket, a range
\* name and the closing bracket of the kind of the open one.
IsRangeCall(tokens, i) ==
    /\ tokens[i] \in RangeSymbols
    /\ i + 3 <= Len(tokens)
    /\ tokens[i + 1] \in {"(", "[", "{"}
    /\ RANGE_NAME_PATTERN(tokens[i + 2])
    /\ tokens[i + 3] \in {")", "]", "}"}
    /\ SameKind(tokens[i + 1], tokens[i + 3])

\* C23: an accepted formula has each of its range operators (max, min, sum,
\* average) in a call of the shape operator, open bracket, range name, closing
\* bracket of the same kind, and each of its range names inside such a call;
\* every other use of a range operator or of a range name is a
\* ParserException.
C23_RangeOperatorOnlyInCallShape ==
    ret.stage = "expression.tree" =>
        /\ ret.tree.exc = "" =>
              \A i \in 1..Len(Tokens(ret.expression)) :
                  /\ Tokens(ret.expression)[i] \in RangeSymbols =>
                        IsRangeCall(Tokens(ret.expression), i)
                  /\ RANGE_NAME_PATTERN(Tokens(ret.expression)[i]) =>
                        i > 2 /\ IsRangeCall(Tokens(ret.expression), i - 2)
        /\ ret.tree.exc # "" => ret.tree = ParserException
        /\ ret.expression \in {"max A1:A4", "max(A1)", "max((A1:A4))", "max(A1:A4", "max(",
                               "max", "A1:A4", "1+A1:A4", "max(A1:A4]"} =>
              ret.tree = ParserException
        /\ ret.expression = "max(A1:A4)" =>
              ret.tree = [exc |-> "", dropped |-> 0,
                          tree |-> Node(Max, None, Node(Str("A1:A4"), None, None))]

\* min[A1:A4] was accepted as the call of min on the range A1:A4.
C23_Witness ==
    /\ ret.stage = "expression.tree"
    /\ ret.expression = "min[A1:A4]"
    /\ ret.tree = [exc |-> "", dropped |-> 0,
                   tree |-> Node(Min, None, Node(Str("A1:A4"), None, None))]

\* The written content is the call of one range operator on one range: the
\* operator and the positions between the two ends of the range.
IsRangeFormula(f) ==
    /\ startswith(f, "=")
    /\ Len(Tokens(SubSeq(f, 2, Len(f)))) = 4
    /\ IsRangeCall(Tokens(SubSeq(f, 2, Len(f))), 1)

OperatorOf(f) == Tokens(SubSeq(f, 2, Len(f)))[1]

ExpansionOf(f) ==
    With(Tokens(SubSeq(f, 2, Len(f)))[3], LAMBDA range :
        With(<<cell_name_to_location(RangeStart(range)).value,
               cell_name_to_location(RangeEnd(range)).value>>, LAMBDA ends :
            {position \in SheetPositions :
                /\ ends[1][1] <= position[1] /\ position[1] <= ends[2][1]
                /\ ends[1][2] <= position[2] /\ position[2] <= ends[2][2]}))

RECURSIVE SumOver(_, _)
SumOver(values, positions) ==
    IF positions = {} THEN FZero
    ELSE With(CHOOSE position \in positions : TRUE, LAMBDA position :
             FAdd(values[position], SumOver(values, positions \ {position})))

\* The operator applied to the values of the positions.
Applied(symbol, values, positions) ==
    CASE symbol = "sum" -> SumOver(values, positions)
      [] symbol = "average" -> FDiv(SumOver(values, positions), Float(Cardinality(positions), 1))
      [] symbol = "max" ->
            values[CHOOSE position \in positions :
                       \A other \in positions : ~FLess(values[position], values[other])]
      [] symbol = "min" ->
            values[CHOOSE position \in positions :
                       \A other \in positions : ~FLess(values[other], values[position])]

\* What __evaluate returns for the tree of a range formula on the store, and
\* what the claim says of it.
RangeFormulaValue(f) ==
    \E result \in {evaluate(cells, parse_content(f).value, EmptyDict)} :
    \E positions \in {ExpansionOf(f)} :
        /\ (\A position \in positions :
                position \in DOMAIN cells /\ IsFloat(cells_values[position])) =>
              /\ result.exc = ""
              /\ result.value = Applied(OperatorOf(f), cells_values, positions)
        /\ (\E position \in positions :
                position \notin DOMAIN cells \/ IsStr(cells_values[position])) =>
              result = Raise("EvaluationException")

\* C24: a range formula op(X:Y) evaluates to the operator applied to the
\* values of exactly the positions of the expansion of X:Y, and fails with an
\* evaluation error when a position of the range holds no cell or holds a
\* text; over A1 to A4 = 1, 2, 3, 4 the sum is 10, the maximum 4 and the
\* average 2.5.
C24_RangeFormulaValue ==
    /\ \A f \in {content \in RangeValueContents : IsRangeFormula(content)} :
           RangeFormulaValue(f)
    /\ (IsRangeFormula(ret.written_content) /\ ret.ok) =>
           /\ ret.changed[ret.position] =
                  Applied(OperatorOf(ret.written_content), cells_values,
                          ExpansionOf(ret.written_content))
           /\ cells_values[ret.position] = ret.changed[ret.position]
           /\ (\A i \in 1..4 : cells_values[<<i - 1, 0>>] = Float(i, 1)) =>
                 /\ ret.written_content = "=sum(A1:A4)" => cells_values[ret.position] = Float(10, 1)
                 /\ ret.written_content = "=max(A1:A4)" => cells_values[ret.position] = Float(4, 1)
                 /\ ret.written_content = "=average(A1:A4)" =>
                       cells_values[ret.position] = Float(5, 2)
    /\ (IsRangeFormula(ret.written_content) /\ ret.exc = "EvaluationException") =>
           /\ ret.reason = "EVALUATION_FAILURE"
           /\ \E position \in ExpansionOf(ret.written_content) :
                  position \notin DOMAIN cells \/ IsStr(cells_values[position])

\* =average(A1:A4) was written to B1 beside A1 to A4 = 1, 2, 3, 4 and
\* evaluated to 2.5.
C24_Witness ==
    /\ ret.position = B1 /\ ret.written_content = "=average(A1:A4)"
    /\ ret.ok /\ ret.changed[B1] = Float(5, 2)
    /\ \A i \in 1..4 : cells_values[<<i - 1, 0>>] = Float(i, 1)
    /\ cells_values[B1] = Float(5, 2)

\* C25: in every reachable state the committed graph has the edge <<u, v>>
\* exactly when u holds a formula in the store that names v; after a
\* successful deletion of p the committed graph has no edge out of p.
C25_GraphEdgesAreReferences ==
    /\ dependencies_graph.edges = ReadsEdges(cells)
    /\ (ret.ok /\ IsDelete(ret)) => out_edges(dependencies_graph, ret.position) = {}

\* The lists of dependents try_update(position, written_content) can go
\* through on the present sheet; none if it fails before it has one.
DependentsToReevaluate(position, written_content) ==
    With(parse_content(written_content), LAMBDA parsed :
        IF parsed.exc # "" THEN {}
        ELSE With(IF IsNode(parsed.value) THEN get_dependencies(parsed.value) ELSE Return({}),
                  LAMBDA deps :
                 IF deps.exc # "" THEN {}
                 ELSE With(compute_dependencies(position,
                               get_updated_graph(dependencies_graph, position,
                                                 deps.value).new_dependency_graph),
                           LAMBDA orders : IF orders.exc # "" THEN {} ELSE orders.value)))

\* C26: in one try_update the dependents of the edited position are
\* re-evaluated in an order in which every dependent comes after every other
\* re-evaluated position it reads, and no value the call returns was computed
\* from a value the call replaced: each is what the cell evaluates to on the
\* sheet the call leaves.
C26_DependentsAfterWhatTheyRead ==
    /\ \A position \in EditPositions, written_content \in ChainContents :
       \A dependents_to_reevaluate \in DependentsToReevaluate(position, written_content) :
       \A i, j \in DOMAIN dependents_to_reevaluate :
           i < j => dependents_to_reevaluate[j] \notin
                        References(cells, dependents_to_reevaluate[i])
    /\ (ret.ok /\ ~IsDelete(ret)) =>
           \A position \in DOMAIN ret.changed :
               \E fresh \in {evaluate_position(cells, position, EmptyDict)} :
                   fresh.exc = "" /\ fresh.value = ret.changed[position]

\* 5 was written to A1 where B1 = =A1*3 and C1 = =B1+A1: B1 was re-evaluated
\* to 15 and then C1 to 20.
C26_Witness ==
    /\ ret.position = A1 /\ ret.written_content = "5" /\ ret.ok
    /\ ret.changed = (A1 :> Float(5, 1)) @@ (B1 :> Float(15, 1)) @@ (C1 :> Float(20, 1))
    /\ DependentsToReevaluate(A1, "5") = {<<B1, C1>>}

\* C27: after construction and after every successful try_update the
\* committed graph has no isolated node: every position without an edge in or
\* out has been removed from it.
C27_NoIsolatedNode == isolates(dependencies_graph) = {}

\* The operand tokens of an expression: its numbers, cell names and range
\* names; and the leaves of a tree.
OperandTokens(expression) == SelectSeq(Tokens(expression), is_operand)

Leaves(node) == SelectSeq(preorder(node), is_leaf)

\* C28: for every formula the parser accepts, the conversion of the postfix
\* list to a tree ends with one node on the stack, and the tree returned holds
\* every operand token of the formula; an operand directly followed by the
\* application of a unary operator or by a range call, with no binary
\* operator between them (1 sin 2, 3 max(A1:A2)), is a ParserException.
C28_AcceptedTreeHoldsEveryOperand ==
    ret.stage = "expression.tree" =>
        /\ ret.tree.exc = "" =>
              /\ ret.tree.dropped = 0
              /\ Len(Leaves(ret.tree.tree)) = Len(OperandTokens(ret.expression))
        /\ ret.expression \in {"1 sin 2", "3 max(A1:A2)"} => ret.tree = ParserException

OperandLeaf(token) ==
    IF is_number(token) THEN Leaf(token) ELSE Node(Str(token), None, None)

\* C29: for every binary operator b (+, -, *, /, ^) and operands x and y the
\* formula x b -y is accepted and parses to the tree b(x, negate(y)), and so
\* with sin for the unary minus.
C29_UnaryRightOperand ==
    ret.stage \in {"expression.tree", "expression.tree.value"} =>
        ret.tree = [exc |-> "", dropped |-> 0,
                    tree |-> Binary(ret.b, OperandLeaf(ret.x), Unary(ret.u, OperandLeaf(ret.y)))]

\* C30: in every state reached by try_update calls from an empty sheet,
\* every position that the formula of a stored cell names, as a cell or
\* inside a range, is itself in the store.
C30_NoDanglingReference ==
    \A q \in DOMAIN cells : \A p \in NamedPositions(get_content(cells[q])) : p \in DOMAIN cells

====
